---- MODULE Spec2Model ----
(***************************************************************************)
(* Heater control of camper_backend: the HeaterController wrapper          *)
(* (hardware/heater.py), the AutotermHeaterController link library         *)
(* (hardware/autotherm_heater_control/autoterm_heater.py) and the timer,   *)
(* schedule and command handlers of app.py.                                *)
(*                                                                         *)
(* Python's None is the empty tuple <<>>, a value v that may be None is    *)
(* <<v>>.  Timestamps are seconds; second 0 is a Monday 00:00 local time.  *)
(***************************************************************************)
EXTENDS Integers, Sequences, FiniteSets, TLC

\* ------------------------------------------------------------------ bounds
\* the clock runs from T0 to T0 + MaxClock seconds
MaxClock == 360
\* the same for a client that uses HeaterController's own timers
MaxClockCtl == 150
\* largest run_timer_minutes a caller passes
MaxRun == 1
\* largest delay_minutes a caller passes
MaxDelay == 1
\* seconds of wall clock explored while the run-limit tick is taken apart
MaxClockRace == 420

\* Tuesday 07:59:00
T0 == 1 * 86400 + 7 * 3600 + 59 * 60
\* the amounts by which the clock is observed to advance between two steps
ClockSteps == {60, 300}

None == <<>>
Some(v) == <<v>>
IsNone(x) == x = <<>>
Val(x) == x[1]

\* Python truthiness of an Optional[float] / Optional[int]
Truthy(x) == x # None /\ Val(x) # 0

Max(a, b) == IF a >= b THEN a ELSE b

\* int(x / 60) for an integer number of seconds x: truncation toward zero
IntDiv60(x) == IF x >= 0 THEN x \div 60 ELSE 0 - ((0 - x) \div 60)

\* ------------------------------------------------------- autoterm_heater.py
HEARTBEAT_INTERVAL_SECONDS == 4
RETRY_INTERVAL_SECONDS == 15

status_text ==
  [c \in {<<0, 1>>, <<1, 0>>, <<1, 1>>, <<2, 0>>, <<2, 1>>, <<2, 2>>, <<2, 3>>,
          <<2, 4>>, <<3, 0>>, <<3, 4>>, <<3, 5>>, <<3, 35>>, <<4, 0>>} |->
     CASE c = <<0, 1>> -> "Standby"
       [] c = <<1, 0>> -> "Starting - Cooling Sensor"
       [] c = <<1, 1>> -> "Starting - Ventilation"
       [] c = <<2, 0>> -> "Starting Preparation"
       [] c = <<2, 1>> -> "Starting - Glow Plug"
       [] c = <<2, 2>> -> "Starting - Ignition 1"
       [] c = <<2, 3>> -> "Starting - Ignition 2"
       [] c = <<2, 4>> -> "Starting - Heating Chamber"
       [] c = <<3, 0>> -> "Heating"
       [] c = <<3, 4>> -> "Cooling Down"
       [] c = <<3, 5>> -> "Ventilating (Setpoint Reached)"
       [] c = <<3, 35>> -> "Fan-Only Mode"
       [] c = <<4, 0>> -> "Shutting Down"]

\* the entries of error_text the modelled heater reports (0, 3, 13)
error_text ==
  [e \in {0, 3, 13} |->
     CASE e = 0 -> "No Error"
       [] e = 3 -> "Under-voltage (Power Supply too low)"
       [] e = 13 -> "Heater Start Failure (Two failed attempts)"]

\* status_text.get(status_code, f"Unknown {status_code}")
StatusDesc(c) ==
  IF c \in DOMAIN status_text THEN status_text[c]
  ELSE "Unknown (" \o ToString(c[1]) \o ", " \o ToString(c[2]) \o ")"

\* error_text.get(error_code, f"Unknown Error {error_code}")
ErrorDesc(e) ==
  IF e \in DOMAIN error_text THEN error_text[e]
  ELSE "Unknown Error " \o ToString(e)

\* the dict get_status returns, reduced to the keys the control logic reads
StatusDict(c, e) ==
  [status_tuple |-> c, description |-> StatusDesc(c),
   error_code |-> e, error |-> ErrorDesc(e)]

\* the (status code, error code) pairs the heater answers a status query with
Statuses ==
  { <<<<0, 1>>, 0>>, <<<<2, 1>>, 0>>, <<<<2, 1>>, 3>>, <<<<3, 0>>, 0>>,
    <<<<4, 0>>, 0>> }

\* `"Starting" in s` and `"Shutting" in s` over the strings a status can be:
\* the descriptions of status_text that contain the word; no entry of
\* error_text, no "Unknown ..." text and no "Error: Not Connected" does.
HasStarting(s) ==
  s \in {status_text[c] : c \in {<<1, 0>>, <<1, 1>>, <<2, 0>>, <<2, 1>>,
                                 <<2, 2>>, <<2, 3>>, <<2, 4>>}}
HasShutting(s) == s \in {status_text[<<4, 0>>]}

\* ---------------------------------------------------------------- heater.py
MODE_MAP ==
  [m \in {"temperature", "power", "ventilation"} |->
     CASE m = "temperature" -> "temp"
       [] m = "power" -> "power"
       [] m = "ventilation" -> "fan"]

\* MODE_MAP_REVERSE.get(lib_mode, 'temperature')
MODE_MAP_REVERSE(lib_mode) ==
  IF \E m \in DOMAIN MODE_MAP : MODE_MAP[m] = lib_mode
  THEN CHOOSE m \in DOMAIN MODE_MAP : MODE_MAP[m] = lib_mode
  ELSE "temperature"

\* HeaterController.__init__ falls back to the mock only when the library
\* constructor or start() fails; start() always returns True
is_mocked == FALSE

\* ------------------------------------------------------------ input domains
\* the connection manager's thread and the threads that call the commands:
\* a socket handler and the sensor loop
Callers == {"ui", "tick"}
Threads == {"worker", "cleanup", "reader"} \cup Callers
Modes == {"temperature", "power", "ventilation"}
Values == {22}
RunMinutes == {None} \cup {Some(n) : n \in 0..MaxRun}
Delays == (0 - 1)..MaxDelay
Commands == {"turn_on", "turn_on_ventilation"}
Act(c, m, v, r) == [command |-> c, mode |-> m, value |-> v, run_timer_minutes |-> r]
Actions ==
  { Act("turn_on", "temperature", 22, None),
    Act("turn_on", "power", 22, Some(1)),
    Act("turn_on_ventilation", "ventilation", 22, Some(1)) }
\* acks[k]: whether the k-th request an operation writes is answered by a
\* valid frame; the last element stands for every later request as well
Acks1 == {<<TRUE>>, <<FALSE>>}
Acks2 == BOOLEAN \X BOOLEAN

\* weekly schedules the UI sends with set_schedule
Entry(d, s, e, o) == [days |-> d, starttime |-> s, endtime |-> e, output |-> o]
Schedules ==
  { <<Entry({0}, "08:00", "08:01", 22), Entry({1, 2}, "08:01", "08:02", 22),
      Entry({1}, "08:00", "08:02", 5), Entry({1}, "08:03", "08:03", 22)>> }

\* the requests the user interface sends with 'turn_on' / 'turn_on_ventilation'
\* (HeaterController.turn_on_ventilation is exercised under SpecCtl)
TurnOnRequests == {<<"turn_on", "temperature">>}
\* the modes the user interface sends with 'change_setting'
SettingModes == {"power"}

VARIABLES
  now,        \* time.time()
  ctl,        \* heater_controller: HeaterController's timer fields
  lib,        \* heater_controller.heater: AutotermHeaterController's fields
  HEATER_RUNTIME_END_TIME,
  HEATER_SAFETY_SHUTDOWN_TIME,
  HEATER_SHUTDOWN_TRIGGERED,
  HEATER_RUNTIME_DURATION,
  HEATER_RETRY_SHUTDOWN_TIMESTAMP,
  HEATER_TIMER_ON_OFF,
  HEATER_SCHEDULE,
  op,         \* the operation that produced this state, with what it did
  startFired, \* times check_timers executed the start-timer stored last
  runPhase    \* history of the run limit a command asked for:
              \* <<"idle">>, <<"failed">> (asked for, but the turn_on failed),
              \* <<"armed", deadline>>, <<"expired", time of the tick that
              \* saw the deadline>> or <<"finished">>
  ,schedRun   \* history: the heater's current run was started by the weekly
              \* schedule and no command or shutdown has ended it since
  ,link       \* the threads that use the serial link: where each one is in
              \* AutotermHeaterController's code, comm_lock, who is writing
              \* to or reading from the port, and (history) what the worker
              \* did since it last found the link not initialized and how
              \* often each thread wrote the request it is sending;
              \* state_lock, and the timer_minutes of the command call
              \* under way;
              \* stop_event, and (history) is_initialized when cleanup()
              \* set it and when cleanup() tested it, and whether the
              \* worker had ended when cleanup()'s join returned
  ,codec      \* the frame codec at work: what was encoded, the bytes built
              \* and what happened to them on the line, what the decoders
              \* made of them; and the status temperature byte decoded last
  ,schedule_file  \* the content of HEATER_SCHEDULE_FILE
  ,tick       \* sensor_reading_thread inside check_runtime_timer: where it
              \* is, and the current_time it read at the start

vars ==
  <<now, ctl, lib, HEATER_RUNTIME_END_TIME, HEATER_SAFETY_SHUTDOWN_TIME,
    HEATER_SHUTDOWN_TRIGGERED, HEATER_RUNTIME_DURATION,
    HEATER_RETRY_SHUTDOWN_TIMESTAMP, HEATER_TIMER_ON_OFF, HEATER_SCHEDULE,
    op, startFired, runPhase, schedRun, link, codec, schedule_file, tick>>

\* ---------------------------------------------------- wire and library calls
\* A call works on w = [ctl, lib, calls, sent]: the two objects, the
\* HeaterController methods called so far in this operation, and the
\* requests written to the serial port so far in this operation.
W0 == [ctl |-> ctl, lib |-> lib, calls |-> <<>>, sent |-> <<>>]

Called(w, fn, args) ==
  [w EXCEPT !.calls = Append(@, [fn |-> fn, args |-> args])]

\* _send_command: None when the port is not open; otherwise the request is
\* written and the k-th request of the operation is answered by a valid
\* frame iff acks[k] (the last element of acks for every later one).  ok stands for `... is not None`.
send_command(w, msg_type, payload, acks) ==
  IF ~w.lib.ser_open
  THEN [w |-> w, ok |-> FALSE]
  ELSE LET n == Len(w.sent) + 1
           ok == acks[IF n <= Len(acks) THEN n ELSE Len(acks)]
       IN [w |-> [w EXCEPT !.sent = Append(@, [msg_type |-> msg_type,
                                               payload |-> payload, ok |-> ok])],
           ok |-> ok]

\* the `if success: with self.state_lock: ...` block of the three turn_on_*
SetMode(w, mode, setpoint, timer_minutes, t) ==
  [w EXCEPT !.lib.current_mode = mode,
            !.lib.current_setpoint = setpoint,
            !.lib.timer_end_time =
               IF Truthy(timer_minutes) THEN Some(t + Val(timer_minutes) * 60)
               ELSE None]

turn_on_power_mode(w, level, timer_minutes, acks, t) ==
  IF ~w.lib.is_initialized THEN [w |-> w, ok |-> FALSE]
  ELSE LET r == send_command(w, 1, <<1, 0, 4, 16, 0, level>>, acks)
       IN IF r.ok
          THEN [w |-> SetMode(r.w, "power", level, timer_minutes, t), ok |-> TRUE]
          ELSE r

turn_on_temp_mode(w, setpoint, timer_minutes, acks, t) ==
  IF ~w.lib.is_initialized THEN [w |-> w, ok |-> FALSE]
  ELSE LET r == send_command(w, 1, <<1, 0, 2, setpoint, 0, 8>>, acks)
       IN IF r.ok
          THEN [w |-> SetMode(r.w, "temp", setpoint, timer_minutes, t), ok |-> TRUE]
          ELSE r

turn_on_fan_only(w, level, timer_minutes, acks, t) ==
  IF ~w.lib.is_initialized THEN [w |-> w, ok |-> FALSE]
  ELSE LET r == send_command(w, 35, <<255, 255, level, 255>>, acks)
       IN IF r.ok
          THEN [w |-> SetMode(r.w, "fan", level, timer_minutes, t), ok |-> TRUE]
          ELSE r

turn_off(w, acks) ==
  IF ~w.lib.is_initialized THEN [w |-> w, ok |-> FALSE]
  ELSE LET r == send_command(w, 3, <<>>, acks)
       IN IF r.ok
          THEN [w |-> [r.w EXCEPT !.lib.current_mode = "off",
                                  !.lib.current_setpoint = 0,
                                  !.lib.timer_end_time = None],
                ok |-> TRUE]
          ELSE r

\* get_last_status(): a copy of last_status ({} before the first heartbeat)
get_last_status(w) == w.lib.last_status

\* get_state(), reduced to the keys the control logic reads
get_state(w) ==
  IF is_mocked
  THEN [status |-> "Error: Not Connected", mode |-> "temperature", setpoint |-> 20]
  ELSE LET status_data == get_last_status(w)
           lib_mode == w.lib.current_mode
           lib_setpoint == w.lib.current_setpoint
           status_desc == IF status_data = None THEN "Standby"
                          ELSE Val(status_data).description
           error_desc == IF status_data = None THEN "No Error"
                         ELSE Val(status_data).error
       IN [status |-> IF error_desc # "No Error" THEN error_desc ELSE status_desc,
           mode |-> MODE_MAP_REVERSE(lib_mode),
           setpoint |-> IF lib_mode = "temp" THEN lib_setpoint ELSE 0]

\* `max(0, int((timestamp - time.time()) / 60))` of get_state, None when the
\* timestamp is not set
RemainingMinutes(timestamp, t) ==
  IF Truthy(timestamp) THEN Some(Max(0, IntDiv60(Val(timestamp) - t))) ELSE None

\* get_state() at time t with the keys of the dict it returns (the readings
\* left out)
get_state_full(w, t) ==
  IF is_mocked
  THEN get_state(w) @@ [powerLevel |-> 0, ventilationLevel |-> 0,
                        timerStartIn |-> None, timerShutdownIn |-> None,
                        errors |-> "Not Connected"]
  ELSE get_state(w) @@
       [powerLevel |-> IF w.lib.current_mode = "power"
                       THEN w.lib.current_setpoint ELSE 0,
        ventilationLevel |-> IF w.lib.current_mode = "fan"
                             THEN w.lib.current_setpoint ELSE 0,
        timerStartIn |-> RemainingMinutes(w.ctl.start_timer_timestamp, t),
        timerShutdownIn |-> RemainingMinutes(w.ctl.shutdown_timer_timestamp, t),
        errors |-> IF get_last_status(w) = None THEN "No Error"
                   ELSE Val(get_last_status(w)).error]

\* NewShutdownTimer with the minutes added to the clock as if they were seconds
NewShutdownTimer_Minutes(run_timer_minutes, t) ==
  IF Truthy(run_timer_minutes) /\ Val(run_timer_minutes) > 0
  THEN Some(t + Val(run_timer_minutes))
  ELSE None

\* `if run_timer_minutes and run_timer_minutes > 0: ... else: ...` of turn_on_*
NewShutdownTimer(run_timer_minutes, t) ==
  IF Truthy(run_timer_minutes) /\ Val(run_timer_minutes) > 0
  THEN Some(t + Val(run_timer_minutes) * 60)
  ELSE None

\* the `if success:` block of turn_on_heating and turn_on_ventilation
StartedRun(w, run_timer_minutes, t) ==
  [w EXCEPT !.ctl.start_timer_timestamp = None,
            !.ctl.pending_start_command = None,
            !.ctl.shutdown_timer_timestamp = NewShutdownTimer(run_timer_minutes, t)]

\* "Always clear all timers on shutdown"
ClearTimers(w) ==
  [w EXCEPT !.ctl.start_timer_timestamp = None,
            !.ctl.pending_start_command = None,
            !.ctl.shutdown_timer_timestamp = None]

shutdown(w, acks) ==
  LET w1 == Called(w, "shutdown", <<>>)
      w2 == IF ~is_mocked THEN turn_off(w1, acks).w ELSE w1
  IN ClearTimers(w2)

turn_on_heating(w, mode, value, run_timer_minutes, acks, t) ==
  LET w1 == Called(w, "turn_on_heating", <<mode, value, run_timer_minutes>>)
  IN IF is_mocked THEN w1
     ELSE LET lib_mode == MODE_MAP[mode]
              r == CASE lib_mode = "temp" -> turn_on_temp_mode(w1, value, None, acks, t)
                     [] lib_mode = "power" -> turn_on_power_mode(w1, value, None, acks, t)
                     [] OTHER -> [w |-> w1, ok |-> FALSE]
          IN IF r.ok THEN StartedRun(r.w, run_timer_minutes, t) ELSE r.w

turn_on_ventilation(w, level, run_timer_minutes, acks, t) ==
  LET w1 == Called(w, "turn_on_ventilation", <<level, run_timer_minutes>>)
  IN IF is_mocked THEN w1
     ELSE LET r == turn_on_fan_only(w1, level, None, acks, t)
          IN IF r.ok THEN StartedRun(r.w, run_timer_minutes, t) ELSE r.w

\* existing_shutdown_timer_minutes of change_settings
ExistingMinutes(w, t) ==
  IF Truthy(w.ctl.shutdown_timer_timestamp)
  THEN Some(Max(0, IntDiv60(Val(w.ctl.shutdown_timer_timestamp) - t)))
  ELSE None

change_settings(w, mode, value, acks, t) ==
  LET w1 == Called(w, "change_settings", <<mode, value>>)
  IN IF is_mocked THEN w1
     ELSE LET lib_mode == MODE_MAP[mode]
              existing == ExistingMinutes(w1, t)
          IN CASE lib_mode \in {"temp", "power"} ->
                    turn_on_heating(w1, mode, value, existing, acks, t)
               [] lib_mode = "fan" ->
                    turn_on_ventilation(w1, value, existing, acks, t)
               [] OTHER -> w1

\* the dispatch on action['command'] in set_start_timer and check_timers
ExecAction(w, action, acks, t) ==
  CASE action.command = "turn_on" ->
         turn_on_heating(w, action.mode, action.value, action.run_timer_minutes, acks, t)
    [] action.command = "turn_on_ventilation" ->
         turn_on_ventilation(w, action.value, action.run_timer_minutes, acks, t)
    [] OTHER -> w

\* set_start_timer that leaves an existing run timer armed
set_start_timer_KeepsRunLimit(w, delay_minutes, action, acks, t) ==
  LET w1 == Called(w, "set_start_timer", <<delay_minutes, action>>)
  IN IF delay_minutes > 0
     THEN [w1 EXCEPT !.ctl.start_timer_timestamp = Some(t + delay_minutes * 60),
                     !.ctl.pending_start_command = Some(action)]
     ELSE ExecAction(w1, action, acks, t)

set_start_timer(w, delay_minutes, action, acks, t) ==
  LET w1 == Called(w, "set_start_timer", <<delay_minutes, action>>)
  IN IF delay_minutes > 0
     THEN [w1 EXCEPT !.ctl.start_timer_timestamp = Some(t + delay_minutes * 60),
                     !.ctl.pending_start_command = Some(action),
                     !.ctl.shutdown_timer_timestamp = None]
     ELSE ExecAction(w1, action, acks, t)

cancel_start_timer(w) ==
  LET w1 == Called(w, "cancel_start_timer", <<>>)
  IN [w1 EXCEPT !.ctl.start_timer_timestamp = None,
                !.ctl.pending_start_command = None]

\* check_timers, step 1: a pending shutdown
CheckShutdownTimer(w, acks, t) ==
  IF Truthy(w.ctl.shutdown_timer_timestamp) /\ t >= Val(w.ctl.shutdown_timer_timestamp)
  THEN shutdown(w, acks)
  ELSE w

\* CheckStartTimer that clears the start timer only when the turn_on succeeded
CheckStartTimer_ClearOnSuccess(w, acks, t) ==
  IF Truthy(w.ctl.start_timer_timestamp) /\ t >= Val(w.ctl.start_timer_timestamp)
  THEN IF w.ctl.pending_start_command # None
       THEN ExecAction(w, Val(w.ctl.pending_start_command), acks, t)
       ELSE w
  ELSE w

\* check_timers, step 2: a pending start
CheckStartTimer(w, acks, t) ==
  IF Truthy(w.ctl.start_timer_timestamp) /\ t >= Val(w.ctl.start_timer_timestamp)
  THEN LET w1 == IF w.ctl.pending_start_command # None
                 THEN ExecAction(w, Val(w.ctl.pending_start_command), acks, t)
                 ELSE w
       IN [w1 EXCEPT !.ctl.start_timer_timestamp = None,
                     !.ctl.pending_start_command = None]
  ELSE w

check_timers(w, acks, t) ==
  LET w1 == Called(w, "check_timers", <<>>)
  IN IF is_mocked THEN w1
     ELSE CheckStartTimer(CheckShutdownTimer(w1, acks, t), acks, t)

\* ------------------------------------------------------------ bookkeeping
\* what an operation was and did: its name and arguments, the
\* HeaterController methods it called and the requests it wrote
Op(name, args, w) ==
  [name |-> name, args |-> args, calls |-> w.calls, sent |-> w.sent]

\* number of calls of one of the methods fns an operation made
NCalls(calls, fns) == Cardinality({i \in DOMAIN calls : calls[i].fn \in fns})
\* number of requests of message type mt an operation wrote
NSent(sent, mt) == Cardinality({i \in DOMAIN sent : sent[i].msg_type = mt})

TurnOnFns == {"turn_on_heating", "turn_on_ventilation"}

appVars ==
  <<HEATER_RUNTIME_END_TIME, HEATER_SAFETY_SHUTDOWN_TIME,
    HEATER_SHUTDOWN_TRIGGERED, HEATER_RUNTIME_DURATION,
    HEATER_RETRY_SHUTDOWN_TIMESTAMP, HEATER_TIMER_ON_OFF, HEATER_SCHEDULE>>

\* nothing encoded or decoded yet
Codec0 ==
  [src |-> None, frame |-> <<>>, garbage |-> <<>>, damage |-> "none",
   decoded |-> FALSE, payload |-> None, message |-> None,
   temp_byte |-> None, temp |-> None]

\* HEATER_SCHEDULE_FILE: absent, holding the JSON text of a schedule with
\* these timers (json.dump and json.load keep the value of what came as
\* JSON from the UI), or holding the start of such a text
NoFile == [kind |-> "none", timers |-> <<>>]
FileJson(timers) == [kind |-> "json", timers |-> timers]
Corrupt == [kind |-> "corrupt", timers |-> <<>>]

\* the module globals as app.py assigns them before load_heater_schedule(),
\* and the heater's objects as constructed
InitHeater ==
  /\ now = T0
  /\ ctl = [start_timer_timestamp |-> None,
            shutdown_timer_timestamp |-> None,
            pending_start_command |-> None]
  /\ lib = [is_initialized |-> FALSE, ser_open |-> FALSE,
            last_status |-> None, current_mode |-> "off",
            current_setpoint |-> 0, timer_end_time |-> None]
  /\ HEATER_RUNTIME_END_TIME = None
  /\ HEATER_SAFETY_SHUTDOWN_TIME = None
  /\ HEATER_SHUTDOWN_TRIGGERED = FALSE
  /\ HEATER_RUNTIME_DURATION = None
  /\ HEATER_RETRY_SHUTDOWN_TIMESTAMP = None
  /\ HEATER_TIMER_ON_OFF = FALSE
  /\ op = [name |-> "init", args |-> <<>>, calls |-> <<>>, sent |-> <<>>]
  /\ startFired = 0
  /\ runPhase = <<"idle">>
  /\ schedRun = FALSE
  /\ link = [lock |-> None,
             busy |-> {},
             pc |-> [t \in Threads |-> IF t = "worker" THEN "top" ELSE "idle"],
             msg |-> [t \in Threads |-> 0],
             ret |-> [t \in Threads |-> "none"],
             res |-> [t \in Threads |-> None],
             since |-> {},
             tries |-> [t \in Threads |-> 0],
             state_lock |-> None,
             timer |-> [t \in Threads |-> None],
             stop |-> FALSE,
             teardown |-> None,
             checked |-> None,
             joined |-> FALSE]
  /\ codec = Codec0
  /\ tick = [pc |-> "idle", current_time |-> 0]

Init ==
  /\ InitHeater
  /\ HEATER_SCHEDULE \in Schedules
  /\ schedule_file = FileJson(HEATER_SCHEDULE)

\* ------------------------------------------------------------------- app.py
\* now.weekday(): Monday is 0
Weekday(t) == (t \div 86400) % 7

Pad2(n) == IF n < 10 THEN "0" \o ToString(n) ELSE ToString(n)

\* now.strftime("%H:%M")
StrfHM(t) == Pad2((t % 86400) \div 3600) \o ":" \o Pad2((t % 3600) \div 60)

\* check_heater_schedule works on s = [w, retry]: the controller and
\* HEATER_RETRY_SHUTDOWN_TIMESTAMP

\* RetryLogic without the branch for a heater that is already off or stopping
RetryLogic_NoSafeBranch(s, acks, t) ==
  IF s.retry # None /\ t >= Val(s.retry)
  THEN LET status == get_state(s.w).status
       IN IF HasStarting(status)
          THEN [s EXCEPT !.retry = Some(t + 60)]
          ELSE [w |-> shutdown(s.w, acks), retry |-> None]
  ELSE s

\* "0. RETRY LOGIC (For delayed shutdowns)"
RetryLogic(s, acks, t) ==
  IF s.retry # None /\ t >= Val(s.retry)
  THEN LET status == get_state(s.w).status
       IN CASE HasStarting(status) -> [s EXCEPT !.retry = Some(t + 60)]
            [] ~HasStarting(status)
               /\ (HasShutting(status) \/ status = "Standby" \/ status = "off") ->
                 [s EXCEPT !.retry = None]
            [] OTHER -> [w |-> shutdown(s.w, acks), retry |-> None]
  ELSE s

\* "START TIME LOGIC"
StartTimeLogic(s, timer, acks, t) ==
  LET setpoint == timer.output
      heater_state == get_state(s.w)
  IN IF heater_state.mode # "temperature" \/ heater_state.setpoint # setpoint
     THEN [s EXCEPT !.w = turn_on_heating(s.w, "temperature", setpoint, None, acks, t)]
     ELSE s

\* "END TIME LOGIC"
EndTimeLogic(s, acks, t) ==
  LET status == get_state(s.w).status
  IN CASE HasStarting(status) -> [s EXCEPT !.retry = Some(t + 60)]
       [] ~HasStarting(status)
          /\ (HasShutting(status) \/ status = "Standby" \/ status = "off") -> s
       [] OTHER -> [s EXCEPT !.w = shutdown(s.w, acks)]

\* the body of `for timer in HEATER_SCHEDULE.get("timers", [])`
TimerLogic(s, timer, acks, t) ==
  IF Weekday(t) \in timer.days
  THEN IF timer.starttime = StrfHM(t) THEN StartTimeLogic(s, timer, acks, t)
       ELSE IF timer.endtime = StrfHM(t) THEN EndTimeLogic(s, acks, t)
       ELSE s
  ELSE s

RECURSIVE TimersLoop(_, _, _, _, _)
TimersLoop(s, timers, i, acks, t) ==
  IF i > Len(timers) THEN s
  ELSE TimersLoop(TimerLogic(s, timers[i], acks, t), timers, i + 1, acks, t)

\* check_heater_schedule without the `if not HEATER_TIMER_ON_OFF: return` gate
check_heater_schedule_Ungated(s, enabled, timers, acks, t) ==
  TimersLoop(RetryLogic(s, acks, t), timers, 1, acks, t)

check_heater_schedule(s, enabled, timers, acks, t) ==
  IF ~enabled THEN s
  ELSE TimersLoop(RetryLogic(s, acks, t), timers, 1, acks, t)

\* RuntimeStep1 without `HEATER_RUNTIME_END_TIME = None` and the TRIGGERED flag
RuntimeStep1_KeepsEndTime(r, acks, t) ==
  IF r.END_TIME # None /\ t >= Val(r.END_TIME)
  THEN [r EXCEPT !.w = shutdown(r.w, acks),
                 !.SAFETY = Some(t + 5 * 60)]
  ELSE r

\* check_runtime_timer works on r = [w, END_TIME, SAFETY, TRIGGERED, DURATION]
\* "STEP 1: Check for Initial Shutdown Trigger"
RuntimeStep1(r, acks, t) ==
  IF r.END_TIME # None /\ t >= Val(r.END_TIME) /\ ~r.TRIGGERED
  THEN [r EXCEPT !.w = shutdown(r.w, acks),
                 !.SAFETY = Some(t + 5 * 60),
                 !.TRIGGERED = TRUE,
                 !.END_TIME = None]
  ELSE r

\* "STEP 2: Check for Safety Shutdown Trigger (5m delay)"
RuntimeStep2(r, acks, t) ==
  IF r.SAFETY # None /\ t >= Val(r.SAFETY)
  THEN [r EXCEPT !.w = shutdown(r.w, acks),
                 !.SAFETY = None,
                 !.DURATION = None,
                 !.TRIGGERED = FALSE]
  ELSE r

check_runtime_timer(r, acks, t) == RuntimeStep2(RuntimeStep1(r, acks, t), acks, t)

\* ------------------------------------------------------------------ actions
Done(name, args, w) ==
  /\ link' = link
  /\ tick' = tick
  /\ codec' = codec
  /\ schedule_file' = schedule_file
  /\ ctl' = w.ctl
  /\ lib' = w.lib
  /\ op' = Op(name, args, w)

\* handle_diesel_heater_command, command == 'shutdown'
CmdShutdown(acks) ==
  /\ Done("cmd_shutdown", <<>>, shutdown(W0, acks))
  /\ HEATER_RUNTIME_END_TIME' = None
  /\ HEATER_SAFETY_SHUTDOWN_TIME' = None
  /\ HEATER_RUNTIME_DURATION' = None
  /\ HEATER_SHUTDOWN_TRIGGERED' = FALSE
  /\ runPhase' = <<"idle">>
  /\ schedRun' = FALSE
  /\ UNCHANGED <<now, HEATER_RETRY_SHUTDOWN_TIMESTAMP, HEATER_TIMER_ON_OFF,
                 HEATER_SCHEDULE, startFired>>

\* handle_diesel_heater_command, command 'turn_on' or 'turn_on_ventilation'
CmdTurnOn(command, mode, value, run_timer_minutes, acks) ==
  /\ IF run_timer_minutes # None /\ Val(run_timer_minutes) > 0
     THEN /\ HEATER_RUNTIME_END_TIME' = Some(now + Val(run_timer_minutes) * 60)
          /\ HEATER_RUNTIME_DURATION' = run_timer_minutes
     ELSE /\ HEATER_RUNTIME_END_TIME' = None
          /\ HEATER_RUNTIME_DURATION' = None
  /\ HEATER_SAFETY_SHUTDOWN_TIME' = None
  /\ HEATER_SHUTDOWN_TRIGGERED' = FALSE
  /\ Done("cmd_turn_on", <<>>,
          IF command = "turn_on"
          THEN turn_on_heating(W0, mode, value, None, acks, now)
          ELSE turn_on_ventilation(W0, value, None, acks, now))
  /\ runPhase' = IF run_timer_minutes # None /\ Val(run_timer_minutes) > 0
                 THEN IF \E i \in DOMAIN op'.sent : op'.sent[i].ok
                      THEN <<"armed", now + Val(run_timer_minutes) * 60>>
                      ELSE <<"failed">>
                 ELSE <<"idle">>
  /\ schedRun' = FALSE
  /\ UNCHANGED <<now, HEATER_RETRY_SHUTDOWN_TIMESTAMP, HEATER_TIMER_ON_OFF,
                 HEATER_SCHEDULE, startFired>>

\* handle_diesel_heater_command, command == 'change_setting'
CmdChangeSetting(mode, value, acks) ==
  /\ Done("change_settings", <<>>,
          change_settings(W0, mode, value, acks, now))
  /\ UNCHANGED <<now, appVars, startFired, runPhase, schedRun>>

\* handle_diesel_heater_schedule_command, command == 'set_timer_toggle'
CmdSetTimerToggle(value) ==
  /\ HEATER_TIMER_ON_OFF' = value
  /\ Done("set_timer_toggle", <<value>>, W0)
  /\ UNCHANGED <<now, HEATER_RUNTIME_END_TIME, HEATER_SAFETY_SHUTDOWN_TIME,
                 HEATER_SHUTDOWN_TRIGGERED, HEATER_RUNTIME_DURATION,
                 HEATER_RETRY_SHUTDOWN_TIMESTAMP, HEATER_SCHEDULE, startFired, runPhase, schedRun>>

\* sensor_reading_thread: check_runtime_timer()
CheckRuntimeTimer(acks) ==
  /\ LET r == check_runtime_timer(
                [w |-> W0, END_TIME |-> HEATER_RUNTIME_END_TIME,
                 SAFETY |-> HEATER_SAFETY_SHUTDOWN_TIME,
                 TRIGGERED |-> HEATER_SHUTDOWN_TRIGGERED,
                 DURATION |-> HEATER_RUNTIME_DURATION], acks, now)
     IN /\ Done("check_runtime_timer", <<>>, r.w)
        /\ HEATER_RUNTIME_END_TIME' = r.END_TIME
        /\ HEATER_SAFETY_SHUTDOWN_TIME' = r.SAFETY
        /\ HEATER_SHUTDOWN_TRIGGERED' = r.TRIGGERED
        /\ HEATER_RUNTIME_DURATION' = r.DURATION
  /\ runPhase' = CASE runPhase[1] = "armed" /\ now >= runPhase[2] -> <<"expired", now>>
                   [] runPhase[1] = "expired" /\ now >= runPhase[2] + 5 * 60 -> <<"finished">>
                   [] OTHER -> runPhase
  /\ schedRun' = (schedRun /\ NCalls(op'.calls, {"shutdown"}) = 0)
  /\ UNCHANGED <<now, HEATER_RETRY_SHUTDOWN_TIMESTAMP, HEATER_TIMER_ON_OFF,
                 HEATER_SCHEDULE, startFired>>

\* sensor_reading_thread: check_heater_schedule()
CheckHeaterSchedule(acks) ==
  /\ LET s == check_heater_schedule(
                [w |-> W0, retry |-> HEATER_RETRY_SHUTDOWN_TIMESTAMP],
                HEATER_TIMER_ON_OFF, HEATER_SCHEDULE, acks, now)
     IN /\ Done("check_heater_schedule", <<HEATER_RETRY_SHUTDOWN_TIMESTAMP>>, s.w)
        /\ HEATER_RETRY_SHUTDOWN_TIMESTAMP' = s.retry
        /\ schedRun' = IF s.w.calls = <<>> THEN schedRun
                       ELSE /\ s.w.calls[Len(s.w.calls)].fn = "turn_on_heating"
                            /\ s.w.sent # <<>>
                            /\ s.w.sent[Len(s.w.sent)].ok
  /\ UNCHANGED <<now, HEATER_RUNTIME_END_TIME, HEATER_SAFETY_SHUTDOWN_TIME,
                 HEATER_SHUTDOWN_TRIGGERED, HEATER_RUNTIME_DURATION,
                 HEATER_TIMER_ON_OFF, HEATER_SCHEDULE, startFired, runPhase>>

\* HeaterController.turn_on_heating called with a run limit
TurnOnHeating(mode, value, run_timer_minutes, acks) ==
  /\ Done("turn_on_heating", <<mode, value, run_timer_minutes>>,
          turn_on_heating(W0, mode, value, run_timer_minutes, acks, now))
  /\ UNCHANGED <<now, appVars, startFired, runPhase, schedRun>>

\* HeaterController.turn_on_ventilation called with a run limit
TurnOnVentilation(level, run_timer_minutes, acks) ==
  /\ Done("turn_on_ventilation", <<level, run_timer_minutes>>,
          turn_on_ventilation(W0, level, run_timer_minutes, acks, now))
  /\ UNCHANGED <<now, appVars, startFired, runPhase, schedRun>>

\* HeaterController.set_start_timer
SetStartTimer(delay_minutes, action, acks) ==
  /\ Done("set_start_timer", <<delay_minutes, action>>,
          set_start_timer(W0, delay_minutes, action, acks, now))
  /\ startFired' = IF delay_minutes > 0 THEN 0 ELSE startFired
  /\ UNCHANGED <<now, appVars, runPhase, schedRun>>

\* HeaterController.shutdown
Shutdown(acks) ==
  /\ Done("shutdown", <<>>, shutdown(W0, acks))
  /\ UNCHANGED <<now, appVars, startFired, runPhase, schedRun>>

\* HeaterController.cancel_start_timer
CancelStartTimer ==
  /\ Done("cancel_start_timer", <<>>, cancel_start_timer(W0))
  /\ UNCHANGED <<now, appVars, startFired, runPhase, schedRun>>

\* HeaterController.check_timers
CheckTimers(acks) ==
  /\ LET w == check_timers(W0, acks, now)
     IN /\ Done("check_timers", <<>>, w)
        /\ startFired' = IF NCalls(w.calls, TurnOnFns) > 0 /\ startFired < 2
                         THEN startFired + 1 ELSE startFired
  /\ UNCHANGED <<now, appVars, runPhase, schedRun>>

\* _connection_manager_worker, CASE 1: _connect_and_initialize()
WorkerConnect(ok) ==
  /\ ~lib.is_initialized
  /\ Done("connect", <<>>,
          [W0 EXCEPT !.lib.is_initialized = ok, !.lib.ser_open = ok])
  /\ UNCHANGED <<now, appVars, startFired, runPhase, schedRun>>

\* a heartbeat that takes the mode to be off whenever it has run
Heartbeat_ResetsMode(w, status, t) ==
  [w EXCEPT !.lib.current_mode = "off", !.lib.current_setpoint = 0]

\* _connection_manager_worker, CASE 2: one heartbeat.  status is what
\* get_status() returns: None, or the dict decoded from the heater's answer.
Heartbeat(w, status, t) ==
  LET w1 == IF w.lib.current_mode = "temp"
            THEN send_command(w, 17, <<20>>, <<TRUE>>).w ELSE w
      r == send_command(w1, 15, <<>>, <<status # None>>)
  IN IF status # None
     THEN LET w2 == [r.w EXCEPT !.lib.last_status = status]
          IN IF Truthy(w2.lib.timer_end_time) /\ t >= Val(w2.lib.timer_end_time)
             THEN turn_off(w2, <<TRUE>>).w ELSE w2
     ELSE [r.w EXCEPT !.lib.is_initialized = FALSE, !.lib.ser_open = FALSE]

WorkerHeartbeat(status) ==
  /\ lib.is_initialized
  /\ Done("heartbeat", <<>>, Heartbeat(W0, status, now))
  /\ UNCHANGED <<now, appVars, startFired, runPhase, schedRun>>

\* time passes
AdvanceClock(d, limit) ==
  /\ now + d <= T0 + limit
  /\ now' = now + d
  /\ Done("advance", <<>>, W0)
  /\ UNCHANGED <<appVars, startFired, runPhase, schedRun>>

\* the link worker thread and the clock, which run under every client
Environment(limit, steps, statuses) ==
  \/ \E ok \in BOOLEAN : WorkerConnect(ok)
  \/ \E st \in statuses : WorkerHeartbeat(Some(StatusDict(st[1], st[2])))
  \/ WorkerHeartbeat(None)
  \/ \E d \in steps : AdvanceClock(d, limit)

\* check_runtime_timer statement by statement, as sensor_reading_thread runs
\* it while the handlers of the commands run in threads of their own; the
\* tick goes to pc2 having called w's methods
TickDone(name, w, pc2, current_time) ==
  /\ op' = Op(name, <<>>, w)
  /\ ctl' = w.ctl
  /\ lib' = w.lib
  /\ tick' = [pc |-> pc2, current_time |-> current_time]
  /\ UNCHANGED <<now, HEATER_RETRY_SHUTDOWN_TIMESTAMP, HEATER_TIMER_ON_OFF,
                 HEATER_SCHEDULE, startFired, runPhase, schedRun, link, codec,
                 schedule_file>>

\* current_time = time.time() and the `if` of STEP 1
T_Test1 ==
  /\ tick.pc = "idle"
  /\ TickDone("tick_test1", W0,
              IF /\ HEATER_RUNTIME_END_TIME # None
                 /\ now >= Val(HEATER_RUNTIME_END_TIME)
                 /\ ~HEATER_SHUTDOWN_TRIGGERED
              THEN "shutdown1" ELSE "test2", now)
  /\ UNCHANGED <<HEATER_RUNTIME_END_TIME, HEATER_SAFETY_SHUTDOWN_TIME,
                 HEATER_SHUTDOWN_TRIGGERED, HEATER_RUNTIME_DURATION>>

\* heater_controller.shutdown() of STEP 1 or of STEP 2
T_Shutdown(acks) ==
  /\ tick.pc \in {"shutdown1", "shutdown2"}
  /\ TickDone("tick_shutdown", shutdown(W0, acks),
              IF tick.pc = "shutdown1" THEN "update1" ELSE "update2",
              tick.current_time)
  /\ UNCHANGED <<HEATER_RUNTIME_END_TIME, HEATER_SAFETY_SHUTDOWN_TIME,
                 HEATER_SHUTDOWN_TRIGGERED, HEATER_RUNTIME_DURATION>>

\* STEP 1 after shutdown(): the three assignments
T_Update1 ==
  /\ tick.pc = "update1"
  /\ HEATER_SAFETY_SHUTDOWN_TIME' = Some(tick.current_time + 5 * 60)
  /\ HEATER_SHUTDOWN_TRIGGERED' = TRUE
  /\ HEATER_RUNTIME_END_TIME' = None
  /\ UNCHANGED HEATER_RUNTIME_DURATION
  /\ TickDone("tick_update1", W0, "test2", tick.current_time)

\* the `if` of STEP 2
T_Test2 ==
  /\ tick.pc = "test2"
  /\ TickDone("tick_test2", W0,
              IF /\ HEATER_SAFETY_SHUTDOWN_TIME # None
                 /\ tick.current_time >= Val(HEATER_SAFETY_SHUTDOWN_TIME)
              THEN "shutdown2" ELSE "idle", tick.current_time)
  /\ UNCHANGED <<HEATER_RUNTIME_END_TIME, HEATER_SAFETY_SHUTDOWN_TIME,
                 HEATER_SHUTDOWN_TRIGGERED, HEATER_RUNTIME_DURATION>>

\* STEP 2 after shutdown(): the three assignments
T_Update2 ==
  /\ tick.pc = "update2"
  /\ HEATER_SAFETY_SHUTDOWN_TIME' = None
  /\ HEATER_RUNTIME_DURATION' = None
  /\ HEATER_SHUTDOWN_TRIGGERED' = FALSE
  /\ UNCHANGED HEATER_RUNTIME_END_TIME
  /\ TickDone("tick_update2", W0, "idle", tick.current_time)

\* the answers an operation can get to its requests: none over a closed port
Heard(A) == IF lib.ser_open THEN A ELSE {a \in A : \A i \in DOMAIN a : ~a[i]}

\* app.py: the command handlers and the periodic loop of the application
Next ==
  \/ \E acks \in Heard(Acks1) : CmdShutdown(acks)
  \/ \E c \in TurnOnRequests, v \in Values, r \in RunMinutes,
        acks \in Heard(Acks1) :
       CmdTurnOn(c[1], c[2], v, r, acks)
  \/ \E m \in SettingModes, v \in Values, acks \in Heard(Acks1) :
       CmdChangeSetting(m, v, acks)
  \/ \E b \in BOOLEAN : CmdSetTimerToggle(b)
  \/ \E acks \in Heard(Acks1) : CheckRuntimeTimer(acks)
  \/ \E acks \in Heard(Acks2) : CheckHeaterSchedule(acks)
  \/ Environment(MaxClock, ClockSteps, Statuses)

Spec == Init /\ [][Next]_vars

\* app.py with the tick of the run limit taken apart: the command handlers
\* run between its statements
NextRace ==
  \/ \E acks \in Heard(Acks1) : CmdShutdown(acks)
  \/ \E c \in TurnOnRequests, v \in Values, r \in RunMinutes,
        acks \in Heard(Acks1) :
       CmdTurnOn(c[1], c[2], v, r, acks)
  \/ T_Test1
  \/ \E acks \in Heard(Acks1) : T_Shutdown(acks)
  \/ T_Update1
  \/ T_Test2
  \/ T_Update2
  \/ Environment(MaxClockRace, {60}, {<<<<3, 0>>, 0>>})

InitRace == Init

\* app.py's periodic loop (sensor_reading_thread: check_runtime_timer and
\* check_heater_schedule on every pass) over a HeaterController whose start
\* timer is set and cancelled through its methods
NextLoop ==
  \/ \E d \in Delays, a \in Actions, acks \in Heard(Acks1) : SetStartTimer(d, a, acks)
  \/ CancelStartTimer
  \/ \E acks \in Heard(Acks1) : CheckRuntimeTimer(acks)
  \/ \E acks \in Heard(Acks2) : CheckHeaterSchedule(acks)
  \/ \E b \in BOOLEAN : CmdSetTimerToggle(b)
  \/ Environment(MaxClockCtl, {30}, {<<<<3, 0>>, 0>>})

InitLoop == Init

SpecLoop == InitLoop /\ [][NextLoop]_vars

SpecRace == InitRace /\ [][NextRace]_vars

\* a client of HeaterController that uses its timers (as src/verify_timer.py
\* does): every public method, called one at a time
NextCtl ==
  \/ \E m \in Modes, v \in Values, r \in RunMinutes, acks \in Acks1 :
       TurnOnHeating(m, v, r, acks)
  \/ \E v \in Values, r \in RunMinutes, acks \in Acks1 : TurnOnVentilation(v, r, acks)
  \/ \E m \in Modes, v \in Values, acks \in Acks1 : CmdChangeSetting(m, v, acks)
  \/ \E d \in Delays, a \in Actions, acks \in Acks1 : SetStartTimer(d, a, acks)
  \/ CancelStartTimer
  \/ \E acks \in Acks1 : CheckTimers(acks)
  \/ \E acks \in Acks1 : Shutdown(acks)
  \/ Environment(MaxClockCtl, {30}, {<<<<3, 0>>, 0>>})

InitCtl == Init

SpecCtl == InitCtl /\ [][NextCtl]_vars

\* ------------------------------------------------- the threads on the link
\* AutotermHeaterController statement by statement: the connection manager
\* thread and the threads that call turn_on_temp_mode and turn_off, which
\* share the port, comm_lock and the is_initialized flag.  The stop flag is
\* set only by cleanup() at process exit: it stays clear under SpecLink, and
\* SpecStop adds the thread that runs cleanup().

\* the request types: turn on, turn off, version, status, reported temperature
MSG_TURN_ON == 1
MSG_TURN_OFF == 3
MSG_VERSION == 6
MSG_STATUS == 15
MSG_REPORT_TEMP == 17

\* the device byte of a frame: 0x03 in every request (_build_message), 0x04
\* in what the heater sends
DEV_CONTROLLER == 3
DEV_HEATER == 4

\* what read_all() can return after a request: nothing, or bytes in which
\* a frame may start (pre: a 0xAA is present), of total bytes from the 0xAA
\* on, with length byte plen, device byte, command byte and a checksum that
\* matches or not
Frame(total, plen, crc_ok, device, cmd) ==
  Some([pre |-> TRUE, total |-> total, plen |-> plen, crc_ok |-> crc_ok,
        device |-> device, cmd |-> cmd])

\* payload length of the heater's answer to each request
AnswerLen(m) ==
  CASE m = MSG_VERSION -> 5
    [] m = MSG_STATUS -> 19
    [] m = MSG_TURN_ON -> 6
    [] m = MSG_REPORT_TEMP -> 1
    [] OTHER -> 0

\* payload length of each request (the callers' payloads)
RequestLen(m) ==
  CASE m = MSG_TURN_ON -> 6
    [] m = MSG_REPORT_TEMP -> 1
    [] OTHER -> 0

\* the device byte of the frames the heater sends unasked with diagnostic
\* data
DEV_DIAGNOSTIC == 2

\* the heater's answer to m; the same with a damaged checksum; a cut-off
\* frame; the request itself echoed by the line; a status frame; a frame
\* of diagnostic data
Answer(m) == Frame(7 + AnswerLen(m), AnswerLen(m), TRUE, DEV_HEATER, m)
Damaged(m) == Frame(7 + AnswerLen(m), AnswerLen(m), FALSE, DEV_HEATER, m)
CutOff(m) == Frame(6, AnswerLen(m), TRUE, DEV_HEATER, m)
Echo(m) == Frame(7 + RequestLen(m), RequestLen(m), TRUE, DEV_CONTROLLER, m)
StatusFrame == Answer(MSG_STATUS)
Diagnostic == Frame(7 + 28, 28, TRUE, DEV_DIAGNOSTIC, 1)

\* a whole frame answering the status query with one payload byte too few
ShortStatus == Frame(7 + 18, 18, TRUE, DEV_HEATER, MSG_STATUS)

\* the (status code, error code) pairs in the payloads of the status frames
LinkStatuses == { <<<<3, 0>>, 0>>, <<<<0, 1>>, 0>> }

Responses(m) ==
  {None, Answer(m), Damaged(m), CutOff(m), Echo(m), StatusFrame, Diagnostic}
    \cup (IF m = MSG_STATUS THEN {ShortStatus} ELSE {})

\* _send_command, from `if not raw_response` on: the payload of the frame
\* (its length stands for it) or None
ParseResponse(raw) ==
  IF raw = None THEN None
  ELSE LET f == Val(raw)
       IN IF ~f.pre THEN None
          ELSE IF f.total < 7 THEN None
          ELSE IF f.total # 5 + f.plen + 2 THEN None
          ELSE IF ~f.crc_ok THEN None
          ELSE Some([len |-> f.plen])

\* an exchange that starts without waiting for the lock
comm_lock_free_Ignored(l) == TRUE

\* the attempts the specification gives a request (send_and_receive's
\* num_retries)
RETRIES == 3

\* `with self.comm_lock:` can be entered
comm_lock_free(l) == l.lock = None

\* a guard that lets every command through
NotInitialized_Never(l) == FALSE

\* the guard at the top of turn_on_*_mode and turn_off
NotInitialized(l) == ~l.is_initialized

\* a length check that takes every decoded payload for a status
StatusPayloadOk_AnyPayload(res) == res # None

\* get_status: the payload is an answer to the status query
StatusPayloadOk(res) == res # None /\ Val(res).len >= 19

\* initialize_session: the payload is an answer to the version query
VersionPayloadOk(res) == res # None /\ Val(res).len = 5

\* what the caller of _send_command(m) makes of its result r: a success
\* for the commands (`is not None`), a status for get_status, a version for
\* initialize_session
Accepted(m, r) ==
  CASE m = MSG_STATUS -> StatusPayloadOk(r)
    [] m = MSG_VERSION -> VersionPayloadOk(r)
    [] OTHER -> r # None

LinkDone(name, args, lib2, link2) ==
  /\ op' = Op(name, args, W0)
  /\ lib' = lib2
  /\ link' = link2
  /\ UNCHANGED <<now, ctl, appVars, startFired, runPhase, schedRun, codec,
                 schedule_file, tick>>

\* thread t calls _send_command(m) and continues at ret when it returns
BeginSend(l, t, m, ret) ==
  [l EXCEPT !.pc[t] = "sc_lock", !.msg[t] = m, !.ret[t] = ret, !.res[t] = None,
            !.tries[t] = 0]

\* _send_command returns r to thread t, leaving `with self.comm_lock`
EndSend(l, t, r) ==
  [l EXCEPT !.pc[t] = l.ret[t], !.res[t] = r, !.lock = None,
            !.busy = @ \ {t}]

\* _send_command: `with self.comm_lock:`
SC_Acquire(t) ==
  /\ link.pc[t] = "sc_lock"
  /\ comm_lock_free(link)
  /\ LinkDone("acquire", <<t, link.msg[t]>>, lib,
              [link EXCEPT !.lock = Some(t), !.pc[t] = "sc_write"])

\* _send_command: the open check, reset_input_buffer() and write(); ok is
\* FALSE when they raise SerialException
SC_Write(t, ok) ==
  /\ link.pc[t] = "sc_write"
  /\ IF ~lib.ser_open
     THEN LinkDone("not_open", <<t, link.msg[t]>>, lib, EndSend(link, t, None))
     ELSE IF ~ok
     THEN LinkDone("write_error", <<t, link.msg[t]>>, lib,
                   EndSend(link, t, None))
     ELSE LinkDone("write", <<t, link.msg[t]>>, lib,
                   [link EXCEPT !.pc[t] = "sc_read", !.busy = @ \cup {t},
                                !.tries[t] = @ + 1])

\* _send_command: read_all() after the wait, and the parsing of what came;
\* read_all() raises SerialException when the port was closed meanwhile
SC_Read(t) ==
  /\ link.pc[t] = "sc_read"
  /\ \E raw \in Responses(link.msg[t]) :
       LET r == IF ~lib.ser_open THEN None ELSE ParseResponse(raw)
       IN LinkDone("read", <<t, link.msg[t], raw, r>>, lib,
                   EndSend(link, t, r))

\* a status read that takes the link lock as well
state_lock_free_AndLink(l) == l.state_lock = None /\ l.lock = None

\* `with self.state_lock:` can be entered
state_lock_free(l) == l.state_lock = None

\* a loop test that never sees the stop flag
Stopped_Never(l) == FALSE

\* self.stop_event.is_set()
Stopped(l) == l.stop

\* _connection_manager_worker: the top of the loop
W_Top ==
  /\ link.pc["worker"] = "top"
  /\ IF Stopped(link)
     THEN LinkDone("exit", <<>>, lib, [link EXCEPT !.pc["worker"] = "exit"])
     ELSE LinkDone("top", <<>>, lib,
                   IF lib.is_initialized
                   THEN [link EXCEPT !.pc["worker"] = "hb_temp"]
                   ELSE [link EXCEPT !.pc["worker"] = "find", !.since = {}])

\* _connect_and_initialize: _find_serial_port()
W_FindPort(found) ==
  /\ link.pc["worker"] = "find"
  /\ LinkDone("find", <<found>>, lib,
              IF found
              THEN [link EXCEPT !.pc["worker"] = "connect",
                                !.since = @ \cup {"find"}]
              ELSE [link EXCEPT !.pc["worker"] = "retry_sleep"])

\* _connect_and_initialize: connect(), and close() when it failed
W_Connect(ok) ==
  /\ link.pc["worker"] = "connect"
  /\ LinkDone("open", <<ok>>, [lib EXCEPT !.ser_open = ok],
              IF ok
              THEN [link EXCEPT !.pc["worker"] = "init",
                                !.since = @ \cup {"open"}]
              ELSE [link EXCEPT !.pc["worker"] = "retry_sleep"])

\* initialize_session: `with self.comm_lock:` and the start of the wake-up
\* burst
W_InitSession ==
  /\ link.pc["worker"] = "init"
  /\ comm_lock_free(link)
  /\ LinkDone("wake_up", <<>>, lib,
              [link EXCEPT !.lock = Some("worker"), !.pc["worker"] = "wake",
                           !.busy = @ \cup {"worker"}])

\* initialize_session: the rest of the burst and reset_input_buffer(); when
\* one of them raises SerialException (ok is FALSE) nothing up to the thread's
\* target catches it; otherwise the version query follows
W_WakeDone(ok) ==
  /\ link.pc["worker"] = "wake"
  /\ LET l == [link EXCEPT !.lock = None, !.busy = @ \ {"worker"}]
     IN IF ok
        THEN LinkDone("wake_done", <<>>, lib,
                      BeginSend(l, "worker", MSG_VERSION, "version_done"))
        ELSE LinkDone("worker_died", <<>>, lib,
                      [l EXCEPT !.pc["worker"] = "dead"])

\* initialize_session after the version query, and the branch of
\* _connect_and_initialize and of the worker's CASE 1 that follows
W_VersionDone ==
  /\ link.pc["worker"] = "version_done"
  /\ IF VersionPayloadOk(link.res["worker"])
     THEN LinkDone("connected", <<>>, [lib EXCEPT !.is_initialized = TRUE],
                   [link EXCEPT !.pc["worker"] = "hb_temp"])
     ELSE LinkDone("connect_failed", <<>>, [lib EXCEPT !.ser_open = FALSE],
                   [link EXCEPT !.pc["worker"] = "retry_sleep"])

\* the worker's CASE 1: time.sleep(RETRY_INTERVAL_SECONDS); continue
W_RetrySleep ==
  /\ link.pc["worker"] = "retry_sleep"
  /\ LinkDone("retry_sleep", <<>>, lib, [link EXCEPT !.pc["worker"] = "top"])

\* the worker's CASE 2: report_controller_temperature in temp mode
W_HeartbeatTemp ==
  /\ link.pc["worker"] = "hb_temp"
  /\ state_lock_free(link)
  /\ LinkDone("hb_temp", <<>>, lib,
              IF lib.current_mode = "temp"
              THEN BeginSend(link, "worker", MSG_REPORT_TEMP, "hb_status")
              ELSE [link EXCEPT !.pc["worker"] = "hb_status"])

\* the worker's CASE 2: get_status() sends the status query
W_HeartbeatStatus ==
  /\ link.pc["worker"] = "hb_status"
  /\ LinkDone("hb_status", <<>>, lib,
              BeginSend(link, "worker", MSG_STATUS, "hb_done"))

\* a run-limit turn_off that is called inside `with self.state_lock`
ExpiryTurnOff_InsideLock(l) ==
  [BeginSend(l, "worker", MSG_TURN_OFF, "hb_off")
     EXCEPT !.state_lock = Some("worker")]

\* the worker's CASE 2: self.turn_off() when the library's run limit has
\* expired, called after `with self.state_lock` was left
ExpiryTurnOff(l) == BeginSend(l, "worker", MSG_TURN_OFF, "hb_off")

\* the worker's CASE 2 after the status query: the status is kept (and the
\* library's own run limit checked), or the link is marked lost
\* (st is what get_status reads in the payload)
W_HeartbeatDone(st) ==
  /\ link.pc["worker"] = "hb_done"
  /\ StatusPayloadOk(link.res["worker"]) => state_lock_free(link)
  /\ IF StatusPayloadOk(link.res["worker"])
     THEN LinkDone("heartbeat", <<st>>,
                   [lib EXCEPT !.last_status = Some(StatusDict(st[1], st[2]))],
                   IF Truthy(lib.timer_end_time) /\ now >= Val(lib.timer_end_time)
                      /\ ~NotInitialized(lib)
                   THEN ExpiryTurnOff(link)
                   ELSE [link EXCEPT !.pc["worker"] = "hb_wait"])
     ELSE LinkDone("lost", <<>>, [lib EXCEPT !.is_initialized = FALSE],
                   [link EXCEPT !.pc["worker"] = "hb_close"])

\* the worker's CASE 2: self.close() after the link was marked lost
W_HeartbeatClose ==
  /\ link.pc["worker"] = "hb_close"
  /\ LinkDone("closed", <<>>, [lib EXCEPT !.ser_open = FALSE],
              [link EXCEPT !.pc["worker"] = "hb_wait"])

\* the worker's CASE 2: stop_event.wait(HEARTBEAT_INTERVAL_SECONDS), after
\* turn_off's update when the run limit sent one
W_HeartbeatWait ==
  /\ link.pc["worker"] \in {"hb_wait", "hb_off"}
  /\ (link.pc["worker"] = "hb_off" /\ link.res["worker"] # None)
       => state_lock_free(link)
  /\ LinkDone("hb_wait", <<>>,
              IF link.pc["worker"] = "hb_off" /\ link.res["worker"] # None
              THEN SetMode(W0, "off", 0, None, now).lib ELSE lib,
              [link EXCEPT !.pc["worker"] = "top"])

\* turn_on_temp_mode(22) or turn_off() is called by thread c: the guard
C_Call(c, m) ==
  /\ link.pc[c] = "idle"
  /\ IF NotInitialized(lib)
     THEN LinkDone("refused", <<c, m>>, lib, link)
     ELSE LinkDone("call", <<c, m>>, lib, BeginSend(link, c, m, "cmd_done"))

\* turn_on_temp_mode or turn_off after _send_command: success, and the
\* update of the mode when it is
C_Done(c) ==
  /\ link.pc[c] = "cmd_done"
  /\ link.res[c] # None => state_lock_free(link)
  /\ LET success == link.res[c] # None
     IN LinkDone("returned", <<c, link.msg[c], success>>,
                 IF ~success THEN lib
                 ELSE IF link.msg[c] = MSG_TURN_ON
                 THEN SetMode(W0, "temp", 22, link.timer[c], now).lib
                 ELSE SetMode(W0, "off", 0, None, now).lib,
                 [link EXCEPT !.pc[c] = "idle", !.timer[c] = None])

\* turn_on_temp_mode(22, timer_minutes) is called by thread c: the guard
C_CallTimed(c, timer_minutes) ==
  /\ link.pc[c] = "idle"
  /\ ~NotInitialized(lib)
  /\ LinkDone("call", <<c, MSG_TURN_ON, timer_minutes>>, lib,
              [BeginSend(link, c, MSG_TURN_ON, "cmd_done")
                 EXCEPT !.timer[c] = Some(timer_minutes)])

NextLink ==
  \/ \E t \in Threads : SC_Acquire(t)
  \/ \E t \in Threads, ok \in BOOLEAN : SC_Write(t, ok)
  \/ \E t \in Threads : SC_Read(t)
  \/ W_Top
  \/ \E found \in BOOLEAN : W_FindPort(found)
  \/ \E ok \in BOOLEAN : W_Connect(ok)
  \/ W_InitSession
  \/ \E ok \in BOOLEAN : W_WakeDone(ok)
  \/ W_VersionDone
  \/ W_RetrySleep
  \/ W_HeartbeatTemp
  \/ W_HeartbeatStatus
  \/ \E st \in LinkStatuses : W_HeartbeatDone(st)
  \/ W_HeartbeatClose
  \/ W_HeartbeatWait
  \/ \E c \in Callers, m \in {MSG_TURN_ON, MSG_TURN_OFF} : C_Call(c, m)
  \/ \E c \in Callers : C_Done(c)

InitLink == Init

SpecLink == InitLink /\ [][NextLink]_vars

\* the worker thread has ended: its loop was left, or an exception ended it
WorkerEnded(l) == l.pc["worker"] \in {"exit", "dead"}

\* cleanup(): self.stop_event.set()
Cl_Stop ==
  /\ link.pc["cleanup"] = "idle"
  /\ LinkDone("stop", <<>>, lib,
              [link EXCEPT !.stop = TRUE, !.pc["cleanup"] = "join",
                           !.teardown = Some(lib.is_initialized)])

\* cleanup(): `if self.worker_thread.is_alive(): join(timeout=2)` returns,
\* the worker having ended, or after two seconds while it is still running
\* (timeout)
Cl_Join(timeout) ==
  /\ link.pc["cleanup"] = "join"
  /\ timeout \/ WorkerEnded(link)
  /\ LinkDone(IF WorkerEnded(link) THEN "joined" ELSE "join_timeout", <<>>, lib,
              [link EXCEPT !.pc["cleanup"] = "check",
                           !.joined = WorkerEnded(link)])

\* cleanup(): `if self.is_initialized:`
Cl_Check ==
  /\ link.pc["cleanup"] = "check"
  /\ LinkDone("check", <<lib.is_initialized>>, lib,
              [link EXCEPT !.checked = Some(lib.is_initialized),
                           !.pc["cleanup"] =
                              IF lib.is_initialized THEN "off" ELSE "close"])

\* cleanup(): self.turn_off(), its guard and the start of its exchange
Cl_TurnOff ==
  /\ link.pc["cleanup"] = "off"
  /\ IF NotInitialized(lib)
     THEN LinkDone("refused", <<"cleanup", MSG_TURN_OFF>>, lib,
                   [link EXCEPT !.pc["cleanup"] = "close"])
     ELSE LinkDone("call", <<"cleanup", MSG_TURN_OFF>>, lib,
                   BeginSend(link, "cleanup", MSG_TURN_OFF, "off_done"))

\* cleanup(): turn_off() after _send_command
Cl_OffDone ==
  /\ link.pc["cleanup"] = "off_done"
  /\ link.res["cleanup"] # None => state_lock_free(link)
  /\ LET success == link.res["cleanup"] # None
     IN LinkDone("returned", <<"cleanup", MSG_TURN_OFF, success>>,
                 IF success THEN SetMode(W0, "off", 0, None, now).lib ELSE lib,
                 [link EXCEPT !.pc["cleanup"] = "close"])

\* cleanup(): self.close()
Cl_Close ==
  /\ link.pc["cleanup"] = "close"
  /\ LinkDone("cleanup_close", <<>>, [lib EXCEPT !.ser_open = FALSE],
              [link EXCEPT !.pc["cleanup"] = "done"])

\* the threads at process exit: the worker, one thread that calls commands,
\* and cleanup() run by atexit
StopThreads == {"worker", "ui", "cleanup"}

NextStop ==
  \/ \E t \in StopThreads : SC_Acquire(t)
  \/ \E t \in StopThreads, ok \in BOOLEAN : SC_Write(t, ok)
  \/ \E t \in StopThreads : SC_Read(t)
  \/ W_Top
  \/ \E found \in BOOLEAN : W_FindPort(found)
  \/ \E ok \in BOOLEAN : W_Connect(ok)
  \/ W_InitSession
  \/ \E ok \in BOOLEAN : W_WakeDone(ok)
  \/ W_VersionDone
  \/ W_RetrySleep
  \/ W_HeartbeatTemp
  \/ W_HeartbeatStatus
  \/ \E st \in LinkStatuses : W_HeartbeatDone(st)
  \/ W_HeartbeatClose
  \/ W_HeartbeatWait
  \/ \E m \in {MSG_TURN_ON, MSG_TURN_OFF} : C_Call("ui", m)
  \/ C_Done("ui")
  \/ Cl_Stop
  \/ \E timeout \in BOOLEAN : Cl_Join(timeout)
  \/ Cl_Check
  \/ Cl_TurnOff
  \/ Cl_OffDone
  \/ Cl_Close

InitStop == Init

SpecStop == InitStop /\ [][NextStop]_vars

\* get_state() is called by the reader: get_last_status(), `with
\* self.state_lock:`
R_Acquire ==
  /\ link.pc["reader"] = "idle"
  /\ state_lock_free(link)
  /\ LinkDone("status_lock", <<>>, lib,
              [link EXCEPT !.state_lock = Some("reader"),
                           !.pc["reader"] = "r_copy"])

\* get_last_status(): self.last_status.copy() and the remaining_minutes
\* that are put into the copy
R_Copy ==
  /\ link.pc["reader"] = "r_copy"
  /\ LinkDone("status_copy", <<>>, lib,
              [link EXCEPT !.pc["reader"] = "r_return",
                           !.res["reader"] =
                              Some([status |-> get_last_status(W0),
                                    remaining_minutes |->
                                      RemainingMinutes(lib.timer_end_time, now)])])

\* get_last_status(): return status, which leaves `with self.state_lock`
R_Return ==
  /\ link.pc["reader"] = "r_return"
  /\ LinkDone("status_return", <<>>, lib,
              [link EXCEPT !.state_lock = None, !.pc["reader"] = "r_mode"])

\* get_state(): `with self.heater.state_lock:` for the mode and the
\* setpoint, and the dict that is returned
R_Mode ==
  /\ link.pc["reader"] = "r_mode"
  /\ state_lock_free(link)
  /\ LinkDone("get_state", <<get_state(W0).mode>>, lib,
              [link EXCEPT !.pc["reader"] = "idle", !.res["reader"] = None])

\* the threads while the application runs: the worker, one thread that
\* calls commands (with the library's run limit too), one that reads the
\* status, and the clock
NextRead ==
  \/ \E t \in {"worker", "ui"} : SC_Acquire(t)
  \/ \E t \in {"worker", "ui"}, ok \in BOOLEAN : SC_Write(t, ok)
  \/ \E t \in {"worker", "ui"} : SC_Read(t)
  \/ W_Top
  \/ \E found \in BOOLEAN : W_FindPort(found)
  \/ \E ok \in BOOLEAN : W_Connect(ok)
  \/ W_InitSession
  \/ \E ok \in BOOLEAN : W_WakeDone(ok)
  \/ W_VersionDone
  \/ W_RetrySleep
  \/ W_HeartbeatTemp
  \/ W_HeartbeatStatus
  \/ \E st \in LinkStatuses : W_HeartbeatDone(st)
  \/ W_HeartbeatClose
  \/ W_HeartbeatWait
  \/ C_Call("ui", MSG_TURN_OFF)
  \/ C_CallTimed("ui", 1)
  \/ C_Done("ui")
  \/ R_Acquire
  \/ R_Copy
  \/ R_Return
  \/ R_Mode
  \/ AdvanceClock(60, 60)

InitRead == Init

SpecRead == InitRead /\ [][NextRead]_vars


\* ------------------------------------------------------------ the frame codec
\* Frames byte by byte: _calculate_crc, _build_message and the decoding
\* part of _send_command, and crc16, build and parse of the implementation
\* under testing/.  A byte sequence is a sequence of numbers 0..255.  Each
\* behaviour encodes one frame, lets the line act on it and decodes what
\* arrives, or decodes one temperature byte.

MaxPayload == 2
MaxGarbage == 2

PREAMBLE == 170

\* the bytes payloads are made of, the bytes of line noise, and the header
\* fields that get encoded
PayloadBytes == {1, PREAMBLE}
GarbageBytes == {0, 27}
Devices == {3, 4}
Majors == {0, 1}
Minors == {1, 15}

RECURSIVE SeqsUpTo(_, _)
SeqsUpTo(S, n) ==
  IF n = 0 THEN {<<>>}
  ELSE LET shorter == SeqsUpTo(S, n - 1)
       IN shorter \cup {Append(q, b) : q \in shorter, b \in S}

Payloads == SeqsUpTo(PayloadBytes, MaxPayload)

\* a ^ b on non-negative integers
RECURSIVE Xor(_, _)
Xor(a, b) ==
  IF a = 0 THEN b
  ELSE IF b = 0 THEN a
  ELSE (((a % 2) + (b % 2)) % 2) + 2 * Xor(a \div 2, b \div 2)

\* _calculate_crc: `for _ in range(8)` on crc
RECURSIVE CrcRounds(_, _)
CrcRounds(crc, n) ==
  IF n = 0 THEN crc
  ELSE IF crc % 2 = 1 THEN CrcRounds(Xor(crc \div 2, 40961), n - 1)
  ELSE CrcRounds(crc \div 2, n - 1)

\* _calculate_crc: `for byte in data` from the i-th byte on
RECURSIVE CrcBytes(_, _, _)
CrcBytes(crc, data, i) ==
  IF i > Len(data) THEN crc
  ELSE CrcBytes(CrcRounds(Xor(crc, data[i]), 8), data, i + 1)

\* _calculate_crc: crc.to_bytes(2, 'big')
calculate_crc(data) ==
  LET crc == CrcBytes(65535, data, 1) IN <<crc \div 256, crc % 256>>

\* _build_message
build_message(msg_type, payload) ==
  LET header == <<PREAMBLE, 3, Len(payload), 0, msg_type>>
  IN (header \o payload) \o calculate_crc(header \o payload)

\* a search that looks at the first byte only
find_preamble_FirstOnly(raw) ==
  IF raw # <<>> /\ raw[1] = PREAMBLE THEN 1 ELSE 0

\* raw_response.find(0xAA), counted from 1; 0 stands for -1
find_preamble(raw) ==
  IF \E i \in DOMAIN raw : raw[i] = PREAMBLE
  THEN CHOOSE i \in DOMAIN raw :
         raw[i] = PREAMBLE /\ \A j \in 1..(i - 1) : raw[j] # PREAMBLE
  ELSE 0

\* a comparison that only asks for enough bytes
length_matches_AtLeast(n, expected_len) == n >= expected_len

\* _send_command: `len(trimmed_response) != expected_len` does not hold
length_matches(n, expected_len) == n = expected_len

\* a comparison that lets every checksum pass
crc_matches_Always(response_data, received_crc) == TRUE

\* _send_command: `calculated_crc != received_crc` does not hold
crc_matches(response_data, received_crc) ==
  calculate_crc(response_data) = received_crc

\* _send_command from `if not raw_response` on, on the bytes read: the
\* payload bytes, or None
receive(raw_response) ==
  IF raw_response = <<>> THEN None
  ELSE LET start_index == find_preamble(raw_response)
       IN IF start_index = 0 THEN None
          ELSE LET trimmed == SubSeq(raw_response, start_index,
                                     Len(raw_response))
                   n == Len(trimmed)
               IN IF n < 7 THEN None
                  ELSE IF ~length_matches(n, 5 + trimmed[3] + 2) THEN None
                  ELSE LET response_data == SubSeq(trimmed, 1, n - 2)
                           received_crc == SubSeq(trimmed, n - 1, n)
                       IN IF ~crc_matches(response_data, received_crc)
                          THEN None
                          ELSE Some(SubSeq(response_data, 6, n - 2))

\* AutotermUtils.crc16: the rounds, shift first and then the polynomial
RECURSIVE Crc16Rounds(_, _)
Crc16Rounds(crc, n) ==
  IF n = 0 THEN crc
  ELSE IF crc % 2 # 0 THEN Crc16Rounds(Xor(crc \div 2, 40961), n - 1)
  ELSE Crc16Rounds(crc \div 2, n - 1)

RECURSIVE Crc16Bytes(_, _, _)
Crc16Bytes(crc, package, i) ==
  IF i > Len(package) THEN crc
  ELSE Crc16Bytes(Crc16Rounds(Xor(crc, package[i]), 8), package, i + 1)

\* AutotermUtils.crc16
crc16(package) ==
  LET crc == Crc16Bytes(65535, package, 1) IN <<crc \div 256, crc % 256>>

\* a build that writes the two command bytes in the wrong order
build_SwappedIds(device, msg_id2, msg_id1, payload) ==
  LET package == <<PREAMBLE, device, Len(payload), msg_id2, msg_id1>> \o payload
  IN package \o crc16(package)

\* AutotermUtils.build
build(device, msg_id2, msg_id1, payload) ==
  LET package == <<PREAMBLE, device, Len(payload), msg_id1, msg_id2>> \o payload
  IN package \o crc16(package)

\* AutotermUtils.parse: a Message, or None for 0
parse(package0) ==
  LET idx == IF find_preamble(package0) = 0 THEN Len(package0) + 1
             ELSE find_preamble(package0)
      package == SubSeq(package0, idx, Len(package0))
      n == Len(package)
  IN IF n < 7 THEN None
     ELSE IF package[1] # PREAMBLE THEN None
     ELSE IF n < package[3] + 7 THEN None
     ELSE IF SubSeq(package, n - 1, n) # crc16(SubSeq(package, 1, n - 2))
     THEN None
     ELSE Some([preamble |-> package[1], device |-> package[2],
                length |-> package[3], msg_id1 |-> package[4],
                msg_id2 |-> package[5], payload |-> SubSeq(package, 6, n - 2)])

\* get_status.parse_signed
parse_signed(b) == IF b < 0 - 20 THEN b + 256 ELSE b

CodecDone(name, args, c) ==
  /\ codec' = c
  /\ op' = Op(name, args, W0)
  /\ UNCHANGED <<now, ctl, lib, appVars, startFired, runPhase, schedRun, link,
                 schedule_file, tick>>

\* the bytes that arrive: the noise, then the frame
Received(c) == c.garbage \o c.frame

\* a frame is encoded with AutotermUtils.build
Build(device, msg_id2, msg_id1, payload) ==
  /\ codec = Codec0
  /\ CodecDone("build", <<>>,
               [Codec0 EXCEPT
                  !.src = Some([device |-> device, msg_id1 |-> msg_id1,
                                msg_id2 |-> msg_id2, payload |-> payload]),
                  !.frame = build(device, msg_id2, msg_id1, payload)])

\* a request is encoded with _build_message
BuildMessage(msg_type, payload) ==
  /\ codec = Codec0
  /\ CodecDone("build_message", <<>>,
               [Codec0 EXCEPT
                  !.src = Some([device |-> 3, msg_id1 |-> 0,
                                msg_id2 |-> msg_type, payload |-> payload]),
                  !.frame = build_message(msg_type, payload)])

\* a frame is put together with a length byte that is not the length of its
\* payload, and the checksum of what was put together
BuildWrongLength(device, msg_id2, payload, length) ==
  /\ codec = Codec0
  /\ length # Len(payload)
  /\ LET package == <<PREAMBLE, device, length, 0, msg_id2>> \o payload
     IN CodecDone("build_wrong_length", <<>>,
                  [Codec0 EXCEPT
                     !.src = Some([device |-> device, msg_id1 |-> 0,
                                   msg_id2 |-> msg_id2, payload |-> payload]),
                     !.frame = package \o calculate_crc(package),
                     !.damage = "len"])

Undecoded == codec.src # None /\ ~codec.decoded

\* a byte of noise arrives before the frame
Garbage(b) ==
  /\ Undecoded
  /\ Len(codec.garbage) < MaxGarbage
  /\ CodecDone("garbage", <<>>, [codec EXCEPT !.garbage = Append(@, b)])

\* bit k of the i-th payload byte is flipped on the line
FlipBit(i, k) ==
  /\ Undecoded /\ codec.damage = "none"
  /\ i \in 1..Len(Val(codec.src).payload)
  /\ CodecDone("flip_bit", <<>>,
               [codec EXCEPT !.frame[5 + i] = Xor(@, 2 ^ k), !.damage = "bit"])

\* the last byte of the frame is lost
CutShort ==
  /\ Undecoded /\ codec.damage = "none"
  /\ CodecDone("cut_short", <<>>,
               [codec EXCEPT !.frame = SubSeq(@, 1, Len(@) - 1),
                             !.damage = "cut"])

\* a byte follows the frame
Trailing(b) ==
  /\ Undecoded /\ codec.damage = "none"
  /\ CodecDone("trailing", <<>>,
               [codec EXCEPT !.frame = Append(@, b), !.damage = "more"])

\* the checksum is damaged on the line
BadChecksum ==
  /\ Undecoded /\ codec.damage = "none"
  /\ CodecDone("bad_checksum", <<>>,
               [codec EXCEPT !.frame[Len(codec.frame)] = Xor(@, 1),
                             !.damage = "crc"])

\* what was received is decoded, by _send_command and by AutotermUtils.parse
Decode ==
  /\ Undecoded
  /\ CodecDone("decode", <<>>,
               [codec EXCEPT !.decoded = TRUE,
                             !.payload = receive(Received(codec)),
                             !.message = parse(Received(codec))])

\* get_status decodes a temperature byte of a status payload
ParseTemp(b) ==
  /\ codec = Codec0
  /\ CodecDone("parse_signed", <<>>,
               [Codec0 EXCEPT !.temp_byte = Some(b),
                              !.temp = Some(parse_signed(b))])

NextFrame ==
  \/ \E d \in Devices, maj \in Majors, min \in Minors, p \in Payloads :
       Build(d, min, maj, p)
  \/ \E m \in Minors, p \in Payloads : BuildMessage(m, p)
  \/ \E d \in Devices, m \in Minors, p \in Payloads, n \in 0..(MaxPayload + 1) :
       BuildWrongLength(d, m, p, n)
  \/ \E b \in GarbageBytes : Garbage(b)
  \/ \E i \in 1..MaxPayload, k \in 0..7 : FlipBit(i, k)
  \/ CutShort
  \/ \E b \in PayloadBytes : Trailing(b)
  \/ BadChecksum
  \/ Decode
  \/ \E b \in 0..255 : ParseTemp(b)

InitFrame == Init

SpecFrame == InitFrame /\ [][NextFrame]_vars

\* ------------------------------------------------------- the schedule store
\* handle_diesel_heater_schedule_command with load_heater_schedule and
\* save_heater_schedule, and the restart of the process.  HEATER_SCHEDULE
\* stands for HEATER_SCHEDULE["timers"].

\* an entry without "days" and "endtime"
BadEntry == [starttime |-> "08:00"]

\* what data.get('schedule') can be: a list (of its items) or something else
\* (None when the key is missing, a dict, a string)
ScheduleArgs ==
  { [is_list |-> TRUE, items |-> <<>>],
    [is_list |-> TRUE, items |-> <<Entry({0}, "08:00", "08:01", 22)>>],
    [is_list |-> TRUE,
     items |-> <<Entry({1}, "08:00", "08:02", 5), Entry({1, 2}, "08:01", "08:02", 22)>>],
    [is_list |-> TRUE, items |-> <<Entry({0}, "08:00", "08:01", 22), BadEntry>>],
    [is_list |-> FALSE, items |-> <<>>] }

\* what the file holds when the process starts for the first time
StartFiles == {NoFile, Corrupt, FileJson(<<Entry({0}, "08:00", "08:01", 22)>>)}

\* open(HEATER_SCHEDULE_FILE, 'w') and json.dump: done, open raised, or dump
\* raised after the file was truncated
SaveOutcomes == {"written", "open_failed", "dump_failed"}

\* load_heater_schedule: the timers HEATER_SCHEDULE has after it, being
\* timers before
load_heater_schedule(file, timers) ==
  IF file.kind = "json" THEN file.timers ELSE timers

\* save_heater_schedule: the file after it
save_heater_schedule(file, timers, outcome) ==
  CASE outcome = "written" -> FileJson(timers)
    [] outcome = "dump_failed" -> Corrupt
    [] OTHER -> file

SchedDone(name, args) ==
  /\ op' = [name |-> name, args |-> args, calls |-> <<>>, sent |-> <<>>]
  /\ UNCHANGED <<now, ctl, lib, HEATER_RUNTIME_END_TIME,
                 HEATER_SAFETY_SHUTDOWN_TIME, HEATER_SHUTDOWN_TRIGGERED,
                 HEATER_RUNTIME_DURATION, HEATER_RETRY_SHUTDOWN_TIMESTAMP,
                 startFired, runPhase, schedRun, link, codec, tick>>

\* command == 'set_timer_toggle'
SchedSetTimerToggle(value) ==
  /\ HEATER_TIMER_ON_OFF' = value
  /\ UNCHANGED <<HEATER_SCHEDULE, schedule_file>>
  /\ SchedDone("set_timer_toggle", <<value>>)

\* command == 'set_schedule'
CmdSetSchedule(new_schedule, outcome) ==
  /\ IF new_schedule.is_list
     THEN /\ HEATER_SCHEDULE' = new_schedule.items
          /\ schedule_file' =
               save_heater_schedule(schedule_file, new_schedule.items, outcome)
     ELSE UNCHANGED <<HEATER_SCHEDULE, schedule_file>>
  /\ UNCHANGED HEATER_TIMER_ON_OFF
  /\ SchedDone("set_schedule", <<new_schedule>>)

\* command == 'get_schedule': the schedule_update that is emitted
CmdGetSchedule ==
  /\ UNCHANGED <<HEATER_SCHEDULE, HEATER_TIMER_ON_OFF, schedule_file>>
  /\ SchedDone("get_schedule",
               <<[timers |-> HEATER_SCHEDULE, isEnabled |-> HEATER_TIMER_ON_OFF]>>)

\* the process ends and app.py is run again: the globals get their module
\* values and load_heater_schedule() runs (the heater's objects are as
\* constructed all along here)
Restart ==
  /\ HEATER_TIMER_ON_OFF' = FALSE
  /\ HEATER_SCHEDULE' = load_heater_schedule(schedule_file, <<>>)
  /\ UNCHANGED schedule_file
  /\ SchedDone("restart", <<>>)

NextSched ==
  \/ \E b \in BOOLEAN : SchedSetTimerToggle(b)
  \/ \E a \in ScheduleArgs, o \in SaveOutcomes : CmdSetSchedule(a, o)
  \/ CmdGetSchedule
  \/ Restart

InitSched ==
  /\ InitHeater
  /\ schedule_file \in StartFiles
  /\ HEATER_SCHEDULE = load_heater_schedule(schedule_file, <<>>)

SpecSched == InitSched /\ [][NextSched]_vars

TypeOK ==
  /\ now \in T0..(T0 + MaxClock)
  /\ schedRun \in BOOLEAN
  /\ lib.current_mode \in {"off", "temp", "power", "fan"}
  /\ HEATER_SHUTDOWN_TRIGGERED \in BOOLEAN
  /\ startFired \in 0..2

\* ----------------------------------------------------------------- claims
\* some request the operation wrote was answered by a valid frame
Acked(o) == \E i \in DOMAIN o.sent : o.sent[i].ok

\* description of the last heater status; 'Standby' before the first heartbeat
LastDescription ==
  IF lib.last_status = None THEN "Standby" ELSE Val(lib.last_status).description

\* the status is a safe-off phase: Standby, Shutting Down, off
SafeOff(desc) == desc \in {"Standby", "Shutting Down", "off"}

\* C1: no shutdown request (message type 0x03) is written to the heater, by
\* any handler or tick, while the last heater status is in a Starting phase.
C1_NoShutdownWhileStarting ==
  HasStarting(LastDescription) => NSent(op.sent, 3) = 0

\* C2: after an operation that called shutdown(), acknowledged or not, the
\* start-timer with its stored action, the shutdown-timer and the
\* retry-shutdown timestamp are all unset.
C2_ShutdownClearsEveryTimer ==
  NCalls(op.calls, {"shutdown"}) > 0 =>
    /\ ctl.start_timer_timestamp = None
    /\ ctl.pending_start_command = None
    /\ ctl.shutdown_timer_timestamp = None
    /\ HEATER_RETRY_SHUTDOWN_TIMESTAMP = None

\* C3 as stated: when the heater was turned on with a run limit, the first
\* tick at or after the deadline issues exactly one shutdown and clears the
\* timer; every later tick, with no new command in between, issues no
\* further shutdown and changes nothing.
C3_NoShutdownAfterExpiry ==
  [][op'.name = "check_runtime_timer" =>
       LET n == NCalls(op'.calls, {"shutdown"})
       IN CASE runPhase[1] = "armed" /\ now >= runPhase[2] ->
                 /\ n = 1
                 /\ HEATER_RUNTIME_END_TIME' = None
                 /\ ctl'.shutdown_timer_timestamp = None
            [] runPhase[1] \in {"expired", "finished"} ->
                 /\ n = 0
                 /\ UNCHANGED <<ctl, lib, appVars>>
            [] OTHER -> TRUE]_vars

\* C3 as amended: for a run limit set by an acknowledged turn_on command,
\* the first check_runtime_timer tick at or after the deadline issues exactly
\* one shutdown and clears the run limit; the first tick at or after five
\* minutes past that tick issues exactly one follow-up shutdown; every other
\* tick, with no new command in between, issues no shutdown and changes
\* nothing.
C3_RunLimitThenFollowUp ==
  [][op'.name = "check_runtime_timer" =>
       LET n == NCalls(op'.calls, {"shutdown"})
           once == /\ n = 1
                   /\ NSent(op'.sent, 3) = IF lib.is_initialized THEN 1 ELSE 0
       IN CASE runPhase[1] = "armed" /\ now >= runPhase[2] ->
                 /\ once
                 /\ HEATER_RUNTIME_END_TIME' = None
                 /\ ctl'.shutdown_timer_timestamp = None
            [] runPhase[1] = "expired" /\ now >= runPhase[2] + 5 * 60 -> once
            [] runPhase[1] = "failed" -> TRUE
            [] OTHER -> /\ n = 0
                        /\ UNCHANGED <<ctl, lib, appVars>>]_vars

\* the follow-up shutdown of a run limit has just been written to the heater
C3_Witness ==
  /\ op.name = "check_runtime_timer"
  /\ runPhase = <<"finished">>
  /\ NCalls(op.calls, {"shutdown"}) = 1
  /\ NSent(op.sent, 3) = 1

\* C4: change_settings never resets or cancels the run limit: after an
\* acknowledged change_settings an armed shutdown-timer is still armed, with
\* a deadline not later than before, whatever time remained; when none was
\* armed, none is armed afterwards.
C4_ChangeSettingsKeepsRunLimit ==
  [][(op'.name = "change_settings" /\ Acked(op')) =>
       IF ctl.shutdown_timer_timestamp # None
       THEN /\ ctl'.shutdown_timer_timestamp # None
            /\ Val(ctl'.shutdown_timer_timestamp) <= Val(ctl.shutdown_timer_timestamp)
       ELSE ctl'.shutdown_timer_timestamp = None]_vars

\* the turn_on_heating / turn_on_ventilation call an operation made
TurnOnCall(o) == o.calls[CHOOSE i \in DOMAIN o.calls : o.calls[i].fn \in TurnOnFns]
ReqMode(c) == IF c.fn = "turn_on_heating" THEN c.args[1] ELSE "ventilation"
ReqValue(c) == IF c.fn = "turn_on_heating" THEN c.args[2] ELSE c.args[1]
ReqRun(c) == IF c.fn = "turn_on_heating" THEN c.args[3] ELSE c.args[2]
\* the heater acknowledged a turn-on request (0x01 or 0x23) of the operation
TurnOnAcked(o) ==
  \E i \in DOMAIN o.sent : o.sent[i].ok /\ o.sent[i].msg_type \in {1, 35}

\* C5: after a turn_on (heating or ventilation) that the heater
\* acknowledged, mode and setpoint are the requested ones, no start-timer is
\* pending, and the shutdown-timer is now + run_minutes (in seconds) when
\* run_minutes > 0 was given and unset otherwise.
C5_TurnOnSetsModeAndRunLimit ==
  (NCalls(op.calls, TurnOnFns) = 1 /\ TurnOnAcked(op)) =>
    LET c == TurnOnCall(op)
    IN /\ get_state(W0).mode = ReqMode(c)
       /\ lib.current_setpoint = ReqValue(c)
       /\ ctl.start_timer_timestamp = None
       /\ ctl.pending_start_command = None
       /\ ctl.shutdown_timer_timestamp =
            IF ReqRun(c) # None /\ Val(ReqRun(c)) > 0
            THEN Some(now + Val(ReqRun(c)) * 60) ELSE None

\* an acknowledged turn_on_heating with a run limit, after the clock moved
C5_Witness ==
  /\ op.name = "turn_on_heating"
  /\ TurnOnAcked(op)
  /\ op.args[3] = Some(1)
  /\ now > T0
  /\ ctl.shutdown_timer_timestamp = Some(now + 60)

\* C6: a turn_on that does not succeed (link not connected, or no valid
\* acknowledgement) leaves mode, setpoint, start-timer and shutdown-timer /
\* run limit exactly as they were, at the controller and in the command
\* handler alike.
C6_FailedTurnOnChangesNothing ==
  [][(op'.name \in {"cmd_turn_on", "turn_on_heating", "turn_on_ventilation"}
       /\ ~TurnOnAcked(op')) =>
       /\ lib'.current_mode = lib.current_mode
       /\ lib'.current_setpoint = lib.current_setpoint
       /\ ctl' = ctl
       /\ HEATER_RUNTIME_END_TIME' = HEATER_RUNTIME_END_TIME]_vars

\* C7: set_start_timer(delay_minutes, action) with delay_minutes <= 0 executes
\* the action at once and stores no start-timer; with delay_minutes > 0 it
\* stores (now + delay, action) as the pending start, clears the
\* shutdown-timer, writes nothing to the heater and leaves mode and setpoint.
C7_SetStartTimer ==
  [][op'.name = "set_start_timer" =>
       LET d == op'.args[1]
           a == op'.args[2]
       IN IF d > 0
          THEN /\ ctl'.start_timer_timestamp = Some(now + d * 60)
               /\ ctl'.pending_start_command = Some(a)
               /\ ctl'.shutdown_timer_timestamp = None
               /\ op'.sent = <<>>
               /\ lib' = lib
          ELSE /\ NCalls(op'.calls, TurnOnFns) = 1
               /\ LET c == TurnOnCall(op')
                  IN /\ c.fn = IF a.command = "turn_on" THEN "turn_on_heating"
                                                        ELSE "turn_on_ventilation"
                     /\ ReqValue(c) = a.value
                     /\ ReqRun(c) = a.run_timer_minutes
                     /\ ReqMode(c) = a.mode
               /\ lib.is_initialized => Len(op'.sent) = 1
               /\ \/ /\ ctl'.start_timer_timestamp = None
                     /\ ctl'.pending_start_command = None
                  \/ /\ ~TurnOnAcked(op')
                     /\ ctl' = ctl]_vars

\* a start-timer has just been stored while the heater is running
C7_Witness ==
  /\ op.name = "set_start_timer"
  /\ op.args[1] > 0
  /\ lib.current_mode # "off"
  /\ ctl.start_timer_timestamp = Some(now + op.args[1] * 60)
  /\ ctl.pending_start_command = Some(op.args[2])
  /\ ctl.shutdown_timer_timestamp = None

\* C8: check_timers executes a stored start-timer's action at the first tick
\* at or after its due time and at no tick before it; after that tick the
\* start-timer and the stored action are cleared, also when the turn_on
\* failed, so the action is executed once; after cancel_start_timer nothing
\* is pending.
C8_StartTimerFiresOnce ==
  [][/\ op'.name = "check_timers" =>
          IF ctl.start_timer_timestamp # None /\ now >= Val(ctl.start_timer_timestamp)
          THEN /\ NCalls(op'.calls, TurnOnFns) = 1
               /\ LET c == TurnOnCall(op')
                      a == Val(ctl.pending_start_command)
                  IN /\ ReqValue(c) = a.value
                     /\ ReqRun(c) = a.run_timer_minutes
                     /\ ReqMode(c) = a.mode
               /\ ctl'.start_timer_timestamp = None
               /\ ctl'.pending_start_command = None
          ELSE /\ NCalls(op'.calls, TurnOnFns) = 0
               /\ ctl'.start_timer_timestamp = ctl.start_timer_timestamp
               /\ ctl'.pending_start_command = ctl.pending_start_command
     /\ op'.name = "cancel_start_timer" =>
          /\ ctl'.start_timer_timestamp = None
          /\ ctl'.pending_start_command = None
     /\ startFired' <= 1]_vars

\* a due start-timer was executed, its turn_on failed, and it is cleared
C8_Witness ==
  /\ op.name = "check_timers"
  /\ NCalls(op.calls, TurnOnFns) = 1
  /\ ~TurnOnAcked(op)
  /\ startFired = 1
  /\ ctl.start_timer_timestamp = None
  /\ ctl.pending_start_command = None

\* the entries whose end minute is the current minute (and whose start is not)
EndingNow ==
  {i \in DOMAIN HEATER_SCHEDULE :
     /\ Weekday(now) \in HEATER_SCHEDULE[i].days
     /\ HEATER_SCHEDULE[i].endtime = StrfHM(now)
     /\ HEATER_SCHEDULE[i].starttime # StrfHM(now)}

\* no entry starts or ends in the current minute
NoEntryNow ==
  \A i \in DOMAIN HEATER_SCHEDULE :
     \/ Weekday(now) \notin HEATER_SCHEDULE[i].days
     \/ /\ HEATER_SCHEDULE[i].endtime # StrfHM(now)
        /\ HEATER_SCHEDULE[i].starttime # StrfHM(now)

\* C9: at a schedule tick in an entry's end minute (schedule enabled, today in
\* the entry's weekdays): in a Starting phase a retry-shutdown is armed 60 s
\* ahead and no shutdown is issued; in a safe-off phase no shutdown is issued
\* and no retry is armed; in every other status a shutdown is issued.
C9_EndMinute ==
  [][(op'.name = "check_heater_schedule" /\ HEATER_TIMER_ON_OFF /\ EndingNow # {}) =>
       LET n == NCalls(op'.calls, {"shutdown"})
       IN CASE HasStarting(LastDescription) ->
                 /\ HEATER_RETRY_SHUTDOWN_TIMESTAMP' = Some(now + 60)
                 /\ n = 0
            [] SafeOff(LastDescription) ->
                 /\ n = 0
                 /\ HEATER_RETRY_SHUTDOWN_TIMESTAMP'
                      \in {None, HEATER_RETRY_SHUTDOWN_TIMESTAMP}
            [] OTHER -> n >= 1]_vars

\* C10: at a tick where the retry-shutdown timestamp is due: in a Starting
\* phase the retry is re-armed 60 s after the tick and no shutdown is issued;
\* in a safe-off phase the retry is cleared and no shutdown is issued;
\* otherwise a shutdown is issued and the retry is cleared.  A retry that is
\* not yet due is not acted on.  (Stated for an enabled schedule, at a minute
\* in which no entry starts or ends.)
C10_DueRetry ==
  [][(/\ op'.name = "check_heater_schedule"
      /\ HEATER_TIMER_ON_OFF
      /\ HEATER_RETRY_SHUTDOWN_TIMESTAMP # None
      /\ NoEntryNow) =>
       LET n == NCalls(op'.calls, {"shutdown"})
       IN IF now >= Val(HEATER_RETRY_SHUTDOWN_TIMESTAMP)
          THEN CASE HasStarting(LastDescription) ->
                      /\ HEATER_RETRY_SHUTDOWN_TIMESTAMP' = Some(now + 60)
                      /\ n = 0
                 [] SafeOff(LastDescription) ->
                      /\ HEATER_RETRY_SHUTDOWN_TIMESTAMP' = None
                      /\ n = 0
                 [] OTHER ->
                      /\ HEATER_RETRY_SHUTDOWN_TIMESTAMP' = None
                      /\ n = 1
          ELSE /\ HEATER_RETRY_SHUTDOWN_TIMESTAMP' = HEATER_RETRY_SHUTDOWN_TIMESTAMP
               /\ n = 0]_vars

\* the schedule tick found the retry-shutdown due while get_state() reports
\* the status "Standby"
DueRetryInStandby ==
  /\ op'.name = "check_heater_schedule"
  /\ HEATER_TIMER_ON_OFF
  /\ HEATER_RETRY_SHUTDOWN_TIMESTAMP # None
  /\ now >= Val(HEATER_RETRY_SHUTDOWN_TIMESTAMP)
  /\ get_state(W0).status = "Standby"

Today(i) == Weekday(now) \in HEATER_SCHEDULE[i].days

\* the operation called turn_on_heating('temperature', setpoint, None)
IssuedTurnOn(o, setpoint) ==
  \E k \in DOMAIN o.calls :
    /\ o.calls[k].fn = "turn_on_heating"
    /\ o.calls[k].args = <<"temperature", setpoint, None>>

\* the heater is in temperature mode at the setpoint, as get_state() tells
AtSetpoint(setpoint) ==
  get_state(W0).mode = "temperature" /\ get_state(W0).setpoint = setpoint

\* C12: with the schedule enabled, for every entry with today in its weekday
\* set: a tick in its start minute while the heater is not in temperature
\* mode at its setpoint issues turn_on(temperature, setpoint) with no run
\* limit; a tick in its start minute while mode and setpoint match issues no
\* turn_on for it; a tick in its end minute while the status is neither
\* Starting nor safe-off issues shutdown().  When no entry has today in its
\* weekday set with a start or end in this minute (and no retry is due), the
\* tick issues nothing.
C12_ScheduleTick ==
  [][(op'.name = "check_heater_schedule" /\ HEATER_TIMER_ON_OFF) =>
       /\ \A i \in DOMAIN HEATER_SCHEDULE :
            LET e == HEATER_SCHEDULE[i]
            IN Today(i) =>
                 /\ (e.starttime = StrfHM(now) /\ ~AtSetpoint(e.output))
                      => IssuedTurnOn(op', e.output)
                 /\ (e.starttime = StrfHM(now) /\ AtSetpoint(e.output)
                     /\ NCalls(op'.calls, {"shutdown"}) = 0)
                      => ~IssuedTurnOn(op', e.output)
                 /\ (e.endtime = StrfHM(now)
                     /\ ~HasStarting(LastDescription) /\ ~SafeOff(LastDescription))
                      => NCalls(op'.calls, {"shutdown"}) >= 1
       /\ (NoEntryNow /\ ~(/\ HEATER_RETRY_SHUTDOWN_TIMESTAMP # None
                           /\ now >= Val(HEATER_RETRY_SHUTDOWN_TIMESTAMP)))
            => op'.calls = <<>> /\ UNCHANGED <<ctl, lib, appVars>>]_vars

\* the operation wrote a turn-on request (0x01) for temperature mode at the
\* setpoint to the heater
SentTurnOn(o, setpoint) ==
  \E k \in DOMAIN o.sent :
    o.sent[k].msg_type = 1 /\ o.sent[k].payload = <<1, 0, 2, setpoint, 0, 8>>

\* 1 when the schedule tick o found a retry-shutdown due, else 0
RetryDue(o) == IF o.args[1] # None /\ now >= Val(o.args[1]) THEN 1 ELSE 0

\* C13: over two ticks of the schedule that land in the same clock minute,
\* each entry fires at most once: at most one turn_on is sent for an entry
\* that starts in this minute, and at most one shutdown for each entry that
\* ends in it (besides the shutdown of a due retry), whatever the link state
\* and the heater status.
C13_OncePerMinute ==
  [][(/\ op.name = "check_heater_schedule"
      /\ op'.name = "check_heater_schedule"
      /\ HEATER_TIMER_ON_OFF) =>
       /\ \A i \in DOMAIN HEATER_SCHEDULE :
            (Today(i) /\ HEATER_SCHEDULE[i].starttime = StrfHM(now)) =>
               ~(/\ SentTurnOn(op, HEATER_SCHEDULE[i].output)
                 /\ SentTurnOn(op', HEATER_SCHEDULE[i].output))
       /\ NSent(op.sent, 3) + NSent(op'.sent, 3)
            <= Cardinality(EndingNow) + RetryDue(op) + RetryDue(op')]_vars

\* C14: while the schedule's enabled flag is false, a schedule tick issues no
\* command, writes nothing to the heater and changes no control state (mode,
\* setpoint, timers, retry-shutdown), at any start or end minute.
C14_DisabledScheduleDoesNothing ==
  [][(op'.name = "check_heater_schedule" /\ ~HEATER_TIMER_ON_OFF) =>
       /\ op'.calls = <<>>
       /\ op'.sent = <<>>
       /\ UNCHANGED <<ctl, lib, appVars>>]_vars

\* a tick of the disabled schedule in an entry's minute with the heater
\* heating and a retry-shutdown due
C14_Witness ==
  /\ op.name = "check_heater_schedule"
  /\ ~HEATER_TIMER_ON_OFF
  /\ ~NoEntryNow
  /\ LastDescription = "Heating"
  /\ lib.is_initialized
  /\ RetryDue(op) = 1

\* C15: a heater run started by the weekly schedule is not shut down by a
\* run-limit deadline or its 5-minute follow-up shutdown left pending from
\* before the scheduled start: while such a run is on, a check_runtime_timer
\* tick issues no shutdown, and the controller holds no shutdown-timer.
\* (Stated for run limits of commands whose turn_on succeeded.)
C15_ScheduledRunNotCutShort ==
  [][(op'.name = "check_runtime_timer" /\ schedRun /\ runPhase[1] # "failed") =>
       /\ NCalls(op'.calls, {"shutdown"}) = 0
       /\ ctl.shutdown_timer_timestamp = None]_vars

\* C16: whenever the link is Disconnected after a heartbeat had succeeded
\* (the link was lost after a failed heartbeat), get_state() reports the
\* not-connected status, never the status description or error of the last
\* successful heartbeat.
C16_DisconnectedReportsNotConnected ==
  (~lib.is_initialized /\ lib.last_status # None) =>
     get_state(W0).status = "Error: Not Connected"


\* the worker thread takes the step
WorkerStep == link'.pc["worker"] # link.pc["worker"]

\* the worker has the answer of a heartbeat status query that failed
HeartbeatFailed ==
  link.pc["worker"] = "hb_done" /\ ~StatusPayloadOk(link.res["worker"])

\* C17: when a heartbeat status query fails while the link is Connected, the
\* worker marks the link Disconnected and closes the port in that loop
\* iteration, and writes no heartbeat request while it is Disconnected; the
\* link becomes Connected only at the end of a handshake that followed a
\* device discovery and a port open; a turn_on or shutdown command called
\* while the link is Disconnected returns failure and writes nothing.
C17_LostLinkReconnects ==
  [][/\ (HeartbeatFailed /\ WorkerStep) =>
          /\ ~lib'.is_initialized
          /\ link'.pc["worker"] = "hb_close"
     /\ (link.pc["worker"] = "hb_close" /\ WorkerStep) =>
          /\ ~lib'.is_initialized /\ ~lib'.ser_open
          /\ link'.pc["worker"] = "hb_wait"
     /\ (op'.name = "write" /\ op'.args[1] = "worker"
         /\ op'.args[2] \in {MSG_STATUS, MSG_REPORT_TEMP}) => lib.is_initialized
     /\ (~lib.is_initialized /\ lib'.is_initialized) =>
          /\ op'.name = "connected"
          /\ link.since = {"find", "open"}
          /\ lib.ser_open
          /\ VersionPayloadOk(link.res["worker"])
     /\ (op'.name \in {"call", "refused"} /\ ~lib.is_initialized) =>
          /\ op'.name = "refused"
          /\ link' = link /\ lib' = lib]_vars

\* a command was refused after the link had been Connected, lost and closed
C17_Witness ==
  /\ op.name = "refused"
  /\ ~lib.is_initialized /\ ~lib.ser_open
  /\ lib.last_status # None
  /\ link.pc["worker"] \in {"hb_wait", "top", "find"}

\* C18: the connection manager's loop is ended by the stop flag only (which
\* stays clear here): whatever I/O failure a step meets - device not found,
\* port open failure, write error during the wake-up burst or the version
\* query, read timeout, failed heartbeat - the worker thread stays in its
\* loop, from where it connects again.
C18_WorkerSurvivesIOFailures == link.pc["worker"] # "dead"

\* the threads inside an exchange: past the flush and write of
\* _send_command and before its read, or inside the wake-up burst
InExchange == link.busy

\* C19: at every instant at most one exchange is in progress on the serial
\* link: a thread - the worker in its heartbeat or handshake, or a caller of
\* a command - flushes, writes and reads only while it holds the link lock,
\* so no two threads are inside an exchange together.
C19_OneExchangeAtATime ==
  /\ Cardinality(InExchange) <= 1
  /\ \A t \in Threads :
       (t \in InExchange \/ link.pc[t] \in {"sc_write", "sc_read", "wake"})
         => link.lock = Some(t)

\* a caller's command waits for the lock while the worker's heartbeat is
\* inside its exchange, and the other caller waits too
C19_Witness ==
  /\ InExchange = {"worker"}
  /\ link.msg["worker"] = MSG_STATUS
  /\ \A c \in Callers : link.pc[c] = "sc_lock"

\* the bytes read hold a checksum-valid frame from the heater that answers
\* request m
MatchingFrame(raw, m) ==
  /\ raw # None
  /\ Val(raw).pre /\ Val(raw).crc_ok
  /\ Val(raw).total = 5 + Val(raw).plen + 2
  /\ Val(raw).device = DEV_HEATER
  /\ Val(raw).cmd = m

\* C20: a request is taken as successful - a turn_on or shutdown as
\* acknowledged, a status or version query as answered - only when the
\* bytes read hold a checksum-valid frame with device 0x04 and the command
\* of the request; a valid frame with another device or command is not.
C20_OnlyMatchingFrameAccepted ==
  (op.name = "read" /\ Accepted(op.args[2], op.args[4]))
    => MatchingFrame(op.args[3], op.args[2])

\* C21: a request is sent again when no matching response came, up to
\* RETRIES attempts, and failure is reported - by the return value - only
\* after every one of these attempts has failed: an exchange whose request
\* was written and that returns failure has been attempted RETRIES times.
C21_FailureOnlyAfterRetries ==
  (op.name = "read" /\ op.args[4] = None)
    => link.tries[op.args[1]] = RETRIES

\* an encoded frame arrived as it was built, nothing before it
Intact == codec.decoded /\ codec.damage = "none"

\* C22: for every device byte, command bytes and payload, decoding the
\* encoded frame gives a frame with exactly these fields and a length field
\* equal to the payload's length (and _send_command's decoding gives the
\* payload); encoding the same fields again gives the same bytes, checksum
\* included.
C22_RoundTrip ==
  (Intact /\ codec.garbage = <<>>) =>
    LET src == Val(codec.src)
    IN /\ codec.message =
            Some([preamble |-> PREAMBLE, device |-> src.device,
                  length |-> Len(src.payload), msg_id1 |-> src.msg_id1,
                  msg_id2 |-> src.msg_id2, payload |-> src.payload])
       /\ codec.payload = Some(src.payload)
       /\ codec.frame = build(src.device, src.msg_id2, src.msg_id1, src.payload)

\* a frame from the heater with command_major 1 and a payload of the longest
\* length that starts with the preamble byte went through the round trip
C22_Witness ==
  /\ Intact /\ codec.garbage = <<>>
  /\ codec.message # None
  /\ Val(codec.src).device = 4 /\ Val(codec.src).msg_id1 = 1
  /\ Len(Val(codec.src).payload) = MaxPayload
  /\ Val(codec.src).payload[1] = PREAMBLE

\* C23: for every valid frame F and every sequence G of bytes other than
\* 0xAA, decoding G followed by F gives what decoding F alone gives.
C23_GarbageBeforeFrame ==
  Intact =>
    /\ codec.payload = receive(codec.frame)
    /\ codec.message = parse(codec.frame)
    /\ codec.payload # None /\ codec.message # None

\* the longest noise came before a frame, which was decoded
C23_Witness ==
  /\ Intact
  /\ Len(codec.garbage) = MaxGarbage
  /\ codec.payload = Some(Val(codec.src).payload)
  /\ Val(codec.src).payload # <<>>

\* C24: flipping any single bit of the payload of a valid frame makes the
\* decoding fail at the checksum - preamble and length are as they were -
\* and no payload of the corrupted frame is returned.
C24_BitFlipRejected ==
  (codec.decoded /\ codec.damage = "bit") =>
    /\ codec.payload = None
    /\ codec.message = None
    /\ find_preamble(Received(codec)) = Len(codec.garbage) + 1
    /\ Len(codec.frame) = 5 + codec.frame[3] + 2

\* a frame with a flipped bit in the last byte of the longest payload was
\* decoded and refused
C24_Witness ==
  /\ codec.decoded /\ codec.damage = "bit"
  /\ Len(Val(codec.src).payload) = MaxPayload
  /\ codec.frame[5 + MaxPayload] # Val(codec.src).payload[MaxPayload]
  /\ codec.payload = None

\* what was received is a frame: from the first 0xAA on at least 7 bytes,
\* a length byte equal to the number of bytes between the 5-byte header and
\* the 2 checksum bytes, and these two the checksum of what precedes them
IsFrame(raw) ==
  \E i \in DOMAIN raw :
    /\ raw[i] = PREAMBLE
    /\ \A j \in 1..(i - 1) : raw[j] # PREAMBLE
    /\ LET n == Len(raw) - i + 1
       IN /\ n >= 7
          /\ raw[i + 2] = n - 7
          /\ <<raw[Len(raw) - 1], raw[Len(raw)]>>
               = calculate_crc(SubSeq(raw, i, Len(raw) - 2))

TempExpected(b) ==
  LET signed == IF b < 128 THEN b ELSE b - 256
  IN IF signed < 0 - 20 THEN signed + 256 ELSE signed

\* C26: a heartbeat whose status query came back with nothing decodable, or
\* with a payload of fewer than 19 bytes, leaves the cached status
\* (last_status) as the last successful heartbeat stored it.
C26_InvalidStatusKeepsSnapshot ==
  [][(/\ link.pc["worker"] = "hb_done"
      /\ \/ link.res["worker"] = None
         \/ Val(link.res["worker"]).len < 19
      /\ WorkerStep)
     => lib'.last_status = lib.last_status]_vars

\* a whole status frame with an 18-byte payload was decoded and the heartbeat
\* that got it is over, with a status cached before
C26_Witness ==
  /\ op.name = "lost"
  /\ link.res["worker"] = Some([len |-> 18])
  /\ lib.last_status # None

\* an argument of set_schedule that is a list of whole entries
WellFormed(new_schedule) ==
  /\ new_schedule.is_list
  /\ \A i \in DOMAIN new_schedule.items :
       DOMAIN new_schedule.items[i] = {"days", "starttime", "endtime", "output"}

\* C27: a temperature byte b of a status payload is decoded as its two's
\* complement 8-bit value, with 256 added back to values below -20: 0xF6
\* gives -10 and 0x9C gives 156.
C27_SignedTemperature ==
  codec.temp_byte # None =>
    Val(codec.temp) = TempExpected(Val(codec.temp_byte))

\* C28: the schedule entries and the enabled flag a restarted process has
\* after loading are the ones it had when it ended, which are the values
\* last set: every set_schedule and set_timer_toggle is saved before it
\* returns.
C28_RestartKeepsScheduleAndFlag ==
  [][op'.name = "restart"
     => /\ HEATER_SCHEDULE' = HEATER_SCHEDULE
        /\ HEATER_TIMER_ON_OFF' = HEATER_TIMER_ON_OFF]_vars

\* C29: a set_schedule whose argument is not a list, or is a list with an
\* entry of the wrong shape, changes neither the schedule in memory nor the
\* saved one.
C29_MalformedScheduleRejected ==
  [][(op'.name = "set_schedule" /\ ~WellFormed(op'.args[1]))
     => /\ HEATER_SCHEDULE' = HEATER_SCHEDULE
        /\ schedule_file' = schedule_file]_vars

\* cleanup() closes the port in this step
CleanupCloses ==
  link.pc["cleanup"] = "close" /\ link'.pc["cleanup"] = "done"

\* C30: once cleanup() has set the stop flag the worker starts no
\* connection attempt and no heartbeat; the final shutdown command is
\* written if and only if the link was connected when teardown began; and
\* cleanup() does not close the port while the worker is inside an exchange.
C30_Teardown ==
  [][/\ (link.stop /\ WorkerStep) => link'.pc["worker"] \notin {"find", "hb_temp"}
     /\ CleanupCloses
          => /\ (link.tries["cleanup"] >= 1) <=> Val(link.teardown)
             /\ "worker" \notin InExchange]_vars

\* C30 (amended): once cleanup() has set the stop flag the worker begins no
\* further loop iteration - the loop test ends it - and stays ended; the
\* final shutdown command is attempted only if is_initialized was set when
\* cleanup() tested it after the join, and always then when the worker had
\* ended by the join; cleanup() closes the port after that test and after
\* the exchange of that command is over, and with the worker ended whenever
\* the join did not time out.
C30_TeardownAmended ==
  [][/\ (link.stop /\ link.pc["worker"] = "top" /\ WorkerStep)
          => link'.pc["worker"] = "exit"
     /\ WorkerEnded(link) => WorkerEnded(link')
     /\ CleanupCloses
          => /\ link.stop /\ link.checked # None
             /\ link.tries["cleanup"] >= 1 => link.msg["cleanup"] = MSG_TURN_OFF
             /\ link.msg["cleanup"] = MSG_TURN_OFF => Val(link.checked)
             /\ (Val(link.checked) /\ link.joined)
                   => link.msg["cleanup"] = MSG_TURN_OFF
             /\ "cleanup" \notin InExchange /\ link.lock # Some("cleanup")
             /\ link.joined => WorkerEnded(link)]_vars

\* teardown began while the worker was connecting: the worker finished its
\* iteration and ended, the join returned, and cleanup() wrote the final
\* shutdown command and then closed the port
C30_Witness ==
  /\ link.pc["cleanup"] = "done"
  /\ link.joined
  /\ link.pc["worker"] = "exit"
  /\ link.teardown = Some(FALSE)
  /\ link.checked = Some(TRUE)
  /\ link.tries["cleanup"] = 1
  /\ ~lib.ser_open

\* C31: after a turn_on_heating in power mode with a run limit of N minutes
\* that took effect, get_state() has the key 'timer' with N or N - 1 under
\* it; after shutdown() it has None under 'timer'.
C31_TimerKey ==
  LET state == get_state_full(W0, now)
  IN /\ (/\ op.name = "turn_on_heating" /\ op.args[1] = "power"
         /\ Truthy(op.args[3])
         /\ op.sent # <<>> /\ op.sent[Len(op.sent)].ok)
          => /\ "timer" \in DOMAIN state
             /\ state["timer"] \in {op.args[3], Some(Val(op.args[3]) - 1)}
     /\ op.name = "shutdown"
          => "timer" \in DOMAIN state /\ state["timer"] = None

\* C32: a status read never takes the link lock and is never kept waiting
\* by a wire exchange - its next step can always be taken; what
\* get_last_status() returns is the whole status the last heartbeat stored
\* (or the empty one before the first heartbeat), and the remaining_minutes
\* put into the returned copy never show in the stored status.
C32_StatusReadNeverBlocks ==
  /\ link.lock # Some("reader") /\ "reader" \notin InExchange
  /\ ENABLED (R_Acquire \/ R_Copy \/ R_Return \/ R_Mode)
  /\ link.pc["reader"] = "r_return"
       => /\ Val(link.res["reader"]).status = lib.last_status
          /\ lib.last_status \in
               {None} \cup {Some(StatusDict(st[1], st[2])) : st \in LinkStatuses}
  /\ lib.last_status # None
       => "remaining_minutes" \notin DOMAIN Val(lib.last_status)

\* the reader has the copy of a stored status in hand while another thread
\* is inside a wire exchange
C32_Witness ==
  /\ link.pc["reader"] = "r_return"
  /\ Val(link.res["reader"]).status # None
  /\ InExchange # {}
  /\ link.lock # None

\* C33: a command that arms a run limit while the tick is in the middle of
\* handling the expiry of the previous one keeps it: the tick's update of
\* the timer state does not overwrite or clear the run limit the command
\* has just armed.
C33_ArmedTimerNotLost ==
  [][(/\ tick.pc = "update1" /\ tick'.pc # "update1"
      /\ op.name = "cmd_turn_on"
      /\ HEATER_RUNTIME_END_TIME # None)
     => /\ HEATER_RUNTIME_END_TIME' = HEATER_RUNTIME_END_TIME
        /\ HEATER_SHUTDOWN_TRIGGERED' = HEATER_SHUTDOWN_TRIGGERED]_vars

\* C34: every pass of the application's periodic loop runs the tick of the
\* start timer and the shutdown timer, so when a pass is over no start
\* timer that is due is still pending and no shutdown timer that is due is
\* still armed.
C34_LoopTicksTimers ==
  [][op'.name = "check_heater_schedule"
     => /\ ~(/\ Truthy(ctl'.start_timer_timestamp)
             /\ now' >= Val(ctl'.start_timer_timestamp))
        /\ ~(/\ Truthy(ctl'.shutdown_timer_timestamp)
             /\ now' >= Val(ctl'.shutdown_timer_timestamp))]_vars

\* C35: the events of the link layer - a heartbeat that succeeds or fails,
\* the loss of the link, a reconnect with its handshake - leave the mode, the
\* setpoint, the start timer, the shutdown timer, the run limit and the
\* retry-shutdown as they are.
C35_LinkEventsKeepControlState ==
  [][op'.name \in {"connect", "heartbeat"}
     => /\ lib'.current_mode = lib.current_mode
        /\ lib'.current_setpoint = lib.current_setpoint
        /\ ctl' = ctl
        /\ HEATER_RETRY_SHUTDOWN_TIMESTAMP' = HEATER_RETRY_SHUTDOWN_TIMESTAMP
        /\ HEATER_RUNTIME_END_TIME' = HEATER_RUNTIME_END_TIME
        /\ HEATER_SAFETY_SHUTDOWN_TIME' = HEATER_SAFETY_SHUTDOWN_TIME]_vars

\* a heartbeat has just failed and the link is lost, with the heater in
\* temperature mode and a retry-shutdown armed
C35_Witness ==
  /\ op.name = "heartbeat"
  /\ ~lib.is_initialized
  /\ lib.current_mode = "temp"
  /\ lib.current_setpoint = 22
  /\ HEATER_RETRY_SHUTDOWN_TIMESTAMP # None

\* C36: get_state().mode is the current mode of the control state, one of
\* off, temperature, power and ventilation: off before any turn_on and after
\* every acknowledged shutdown, temperature only after an acknowledged
\* turn_on in temperature mode.
C36_ModeReported ==
  get_state(W0).mode =
    CASE lib.current_mode = "off" -> "off"
      [] lib.current_mode = "temp" -> "temperature"
      [] lib.current_mode = "power" -> "power"
      [] lib.current_mode = "fan" -> "ventilation"

\* C37: a retry-shutdown that is armed is resolved by the loop once the
\* heater has left the Starting phase: the tick that finds it due while the
\* reported status is not a Starting phase clears it, also when the weekly
\* schedule was disabled after the retry was armed.
C37_ArmedRetryResolved ==
  [][(/\ op'.name = "check_heater_schedule"
      /\ HEATER_RETRY_SHUTDOWN_TIMESTAMP # None
      /\ now >= Val(HEATER_RETRY_SHUTDOWN_TIMESTAMP)
      /\ ~HasStarting(get_state(W0).status)) =>
       HEATER_RETRY_SHUTDOWN_TIMESTAMP' = None]_vars

\* C38: once the end time of a run that the schedule started has been handled
\* (shutdown issued at once, nothing done in a safe-off phase, or the due
\* retry resolved outside a Starting phase), get_state() no longer reports
\* temperature mode at the entry's setpoint, so that the start logic of the
\* entry's next start minute issues turn_on again.
C38_EndHandledForgetsRun ==
  [][(/\ op'.name = "check_heater_schedule"
      /\ HEATER_TIMER_ON_OFF
      /\ schedRun
      /\ lib.current_mode = "temp"
      /\ ~HasStarting(get_state(W0).status)
      /\ NCalls(op'.calls, {"turn_on_heating"}) = 0
      /\ \/ EndingNow # {}
         \/ /\ HEATER_RETRY_SHUTDOWN_TIMESTAMP # None
            /\ now >= Val(HEATER_RETRY_SHUTDOWN_TIMESTAMP)) =>
       ~ /\ get_state(W0)'.mode = "temperature"
         /\ get_state(W0)'.setpoint = lib.current_setpoint]_vars

\* C39: in HeaterController, after any sequence of completed set_start_timer,
\* cancel_start_timer, turn_on_heating, turn_on_ventilation, change_settings,
\* shutdown and check_timers calls, a pending start timer and an armed
\* shutdown timer are never both set.
C39_TimersExclusive ==
  ~ /\ Truthy(ctl.start_timer_timestamp)
    /\ Truthy(ctl.shutdown_timer_timestamp)

\* a start timer has just been set while the heater is running: it is pending
\* and no shutdown timer is armed
C39_Witness ==
  /\ op.name = "set_start_timer"
  /\ op.args[1] > 0
  /\ lib.current_mode # "off"
  /\ Truthy(ctl.start_timer_timestamp)
  /\ ctl.pending_start_command = Some(op.args[2])
  /\ ~Truthy(ctl.shutdown_timer_timestamp)

\* thread t waits at `with self.comm_lock:`
WaitsForLink(t) == link.pc[t] = "sc_lock" /\ link.lock # None

\* thread t waits at a `with self.state_lock:`
WaitsForState(t) ==
  /\ link.state_lock # None
  /\ \/ link.pc[t] \in {"hb_temp", "r_mode"}
     \/ link.pc[t] = "hb_done" /\ StatusPayloadOk(link.res[t])
     \/ link.pc[t] \in {"hb_off", "cmd_done", "off_done"} /\ link.res[t] # None

\* C40: no thread waits for (or holds) the link lock while it holds the
\* state lock, and none waits for the state lock while it holds the link
\* lock, the worker's turn_off at the expiry of the run limit included; the
\* holder of either lock can always take its next step, so no thread waits
\* for a lock that is never released.
C40_NoLockNesting ==
  /\ \A t \in Threads :
       /\ link.state_lock = Some(t) =>
            /\ link.pc[t] \notin {"sc_lock", "sc_write", "sc_read"}
            /\ link.lock # Some(t)
       /\ link.lock = Some(t) =>
            /\ ~WaitsForState(t)
            /\ link.state_lock # Some(t)
            /\ ENABLED \/ SC_Read(t)
                       \/ \E ok \in BOOLEAN : SC_Write(t, ok)
                       \/ t = "worker" /\ \E ok \in BOOLEAN : W_WakeDone(ok)
  /\ link.state_lock # None =>
       /\ link.state_lock = Some("reader")
       /\ ENABLED (R_Copy \/ R_Return)

\* the worker waits for the link lock with the turn_off of the expired run
\* limit while another thread's exchange is in flight and the reader holds
\* the state lock
C40_Witness ==
  /\ WaitsForLink("worker")
  /\ link.msg["worker"] = MSG_TURN_OFF
  /\ link.ret["worker"] = "hb_off"
  /\ link.lock = Some("ui")
  /\ link.state_lock = Some("reader")

====
